---- MODULE Spec2Model ----
(***************************************************************************)
(* Model of the ccusage-live team monitoring core:                         *)
(*   - UnifiedSessionSelector   (src/src/_unified-session-selector.ts)     *)
(*   - TeamService.getTeamStats (src/src/team/team-service.ts)             *)
(*   - SystemConfigManager      (src/src/team/enhanced-live-monitor.ts)    *)
(* Times are milliseconds, as Date.now() in the source.                    *)
(***************************************************************************)
EXTENDS Integers, Sequences, FiniteSets, Bags, TLC

\* ------------------------------------------------------------------------
\* Time
\* ------------------------------------------------------------------------
MINUTE == 60 * 1000
HOUR == 60 * MINUTE

\* Date.now() when the process starts (any instant later than every TTL).
StartTime == 50000000

\* Number of clock advances explored in one behaviour.
MaxTicks == 2

\* ------------------------------------------------------------------------
\* Session blocks (windows)
\* ------------------------------------------------------------------------
CACHE_DURATION == 30000
SESSION_DURATION == 5 * HOUR
ACTIVITY_GRACE == 2 * 60 * 60 * 1000

\* The "no value" session (null in the source).
NoSession ==
    [id |-> "none", startTime |-> 0, endTime |-> 0, actualEndTime |-> 0,
     isActive |-> FALSE, isGap |-> FALSE, tokens |-> <<0, 0, 0, 0>>, costUSD |-> 0]

\* The activity recorded in the local usage files: each entry is one window,
\* its first-activity hour, its last activity, its counters and cost (cents).
\*   O : a window that ended hours ago
\*   G : the gap block between O and A
\*   A : a window that ended 10 minutes before StartTime, last used 20 minutes before
\*   B : the window that started 5 minutes before StartTime, last used 1 minute before
RawWindows ==
    { [id |-> "O", startTime |-> StartTime - 12 * HOUR, actualEndTime |-> StartTime - 11 * HOUR,
       endTime |-> StartTime - 7 * HOUR, isGap |-> FALSE, tokens |-> <<1, 0, 0, 0>>, costUSD |-> 1],
      [id |-> "A", startTime |-> StartTime - 5 * HOUR - 10 * MINUTE, actualEndTime |-> StartTime - 20 * MINUTE,
       endTime |-> StartTime - 10 * MINUTE, isGap |-> FALSE, tokens |-> <<2, 1, 0, 1>>, costUSD |-> 3],
      [id |-> "B", startTime |-> StartTime - 5 * MINUTE, actualEndTime |-> StartTime - 1 * MINUTE,
       endTime |-> StartTime - 5 * MINUTE + SESSION_DURATION, isGap |-> FALSE, tokens |-> <<1, 1, 1, 0>>, costUSD |-> 2] }

\* The gap block the builder puts between O and A when both are present
\* (more than SESSION_DURATION without activity).
GapBlock ==
    [id |-> "G", startTime |-> StartTime - 6 * HOUR, actualEndTime |-> StartTime - 6 * HOUR,
     endTime |-> StartTime - 5 * HOUR - 10 * MINUTE, isGap |-> TRUE, tokens |-> <<0, 0, 0, 0>>, costUSD |-> 0]

WithGaps(raws) ==
    IF {"O", "A"} \subseteq {r.id : r \in raws} THEN raws \cup {GapBlock} ELSE raws

\* State of a window at time t.
calculateSessionState(startTime, endTime, actualEndTime, t) ==
    IF t >= startTime /\ t < endTime
    THEN "current"
    ELSE IF (t - actualEndTime) < (60 * 60 * 1000) /\ (t - endTime) < (30 * 60 * 1000)
         THEN "active"
         ELSE "expired"

\* Variant: a gap block gets its isActive flag like any other block.
createBlock_GapsCanBeActive(raw, t) ==
    [id |-> raw.id, startTime |-> raw.startTime, endTime |-> raw.endTime,
     actualEndTime |-> raw.actualEndTime,
     isActive |-> calculateSessionState(raw.startTime, raw.endTime, raw.actualEndTime, t)
                           \in {"active", "current"},
     isGap |-> raw.isGap, tokens |-> raw.tokens, costUSD |-> raw.costUSD]

\* A block as the builder constructs it at time t: isActive is computed then.
createBlock(raw, t) ==
    [id |-> raw.id, startTime |-> raw.startTime, endTime |-> raw.endTime,
     actualEndTime |-> raw.actualEndTime,
     isActive |-> IF raw.isGap THEN FALSE
                  ELSE calculateSessionState(raw.startTime, raw.endTime, raw.actualEndTime, t)
                           \in {"active", "current"},
     isGap |-> raw.isGap, tokens |-> raw.tokens, costUSD |-> raw.costUSD]

\* Insert b into a sequence sorted by startTime, descending (stable).
RECURSIVE InsertDesc(_, _)
InsertDesc(b, s) ==
    IF s = <<>> THEN <<b>>
    ELSE IF Head(s).startTime >= b.startTime
         THEN <<Head(s)>> \o InsertDesc(b, Tail(s))
         ELSE <<b>> \o s

\* Array.prototype.sort((a, b) => b.startTime - a.startTime)
RECURSIVE SortDesc(_)
SortDesc(s) ==
    IF s = <<>> THEN <<>> ELSE InsertDesc(Head(s), SortDesc(Tail(s)))

Reverse(s) == [i \in 1..Len(s) |-> s[Len(s) + 1 - i]]

RECURSIVE SetToSeq(_)
SetToSeq(S) ==
    IF S = {} THEN <<>>
    ELSE LET x == CHOOSE y \in S : TRUE IN <<x>> \o SetToSeq(S \ {x})

\* The candidate list the builder returns at time t for the recorded activity,
\* ordered by startTime as the `order` option asks.
loadSessionBlockData(raws, order, t) ==
    LET desc == SortDesc(SetToSeq({createBlock(r, t) : r \in WithGaps(raws)}))
    IN  IF order = "desc" THEN desc ELSE Reverse(desc)

\* Variant: tier 1 picks the latest startTime whatever the list order.
selectStableSession_SortedTier1(blocks, t) ==
    LET IsRecentActive(block) ==
            block.isActive /\ (t - block.actualEndTime) < ACTIVITY_GRACE
        IsCurrentTime(block) == t >= block.startTime /\ t < block.endTime
        NotGap(block) == ~block.isGap
        activeBlocks == SortDesc(SelectSeq(blocks, IsRecentActive))
        currentTimeBlocks == SelectSeq(blocks, IsCurrentTime)
        recentBlocks == SortDesc(SelectSeq(blocks, NotGap))
    IN  IF Len(activeBlocks) > 0 THEN activeBlocks[1]
        ELSE IF Len(currentTimeBlocks) > 0 THEN currentTimeBlocks[1]
        ELSE IF Len(recentBlocks) > 0 THEN recentBlocks[1]
        ELSE NoSession

\* Variant: tier 3 takes the first non-gap window in list order, unsorted.
selectStableSession_UnsortedTier3(blocks, t) ==
    LET IsRecentActive(block) ==
            block.isActive /\ (t - block.actualEndTime) < ACTIVITY_GRACE
        IsCurrentTime(block) == t >= block.startTime /\ t < block.endTime
        NotGap(block) == ~block.isGap
        activeBlocks == SelectSeq(blocks, IsRecentActive)
        currentTimeBlocks == SelectSeq(blocks, IsCurrentTime)
        recentBlocks == SelectSeq(blocks, NotGap)
    IN  IF Len(activeBlocks) > 0 THEN activeBlocks[1]
        ELSE IF Len(currentTimeBlocks) > 0 THEN currentTimeBlocks[1]
        ELSE IF Len(recentBlocks) > 0 THEN recentBlocks[1]
        ELSE NoSession

\* UnifiedSessionSelector.selectStableSession
selectStableSession(blocks, t) ==
    LET IsRecentActive(block) ==
            block.isActive /\ (t - block.actualEndTime) < ACTIVITY_GRACE
        IsCurrentTime(block) == t >= block.startTime /\ t < block.endTime
        NotGap(block) == ~block.isGap
        activeBlocks == SelectSeq(blocks, IsRecentActive)
        currentTimeBlocks == SelectSeq(blocks, IsCurrentTime)
        recentBlocks == SortDesc(SelectSeq(blocks, NotGap))
    IN  IF Len(activeBlocks) > 0 THEN activeBlocks[1]
        ELSE IF Len(currentTimeBlocks) > 0 THEN currentTimeBlocks[1]
        ELSE IF Len(recentBlocks) > 0 THEN recentBlocks[1]
        ELSE NoSession

\* UnifiedSessionSelector.calculateCurrentSession: a Result, failure when the
\* load throws.
calculateCurrentSession(raws, order, loadThrows, t) ==
    IF loadThrows THEN [ok |-> FALSE, value |-> NoSession]
    ELSE LET blocks == loadSessionBlockData(raws, order, t)
         IN  IF Len(blocks) = 0 THEN [ok |-> TRUE, value |-> NoSession]
             ELSE [ok |-> TRUE, value |-> selectStableSession(blocks, t)]

\* Variant: the memo is never consulted.
getCurrentSession_NoCache(cached, stamp, raws, order, loadThrows, t) ==
    LET sessionResult == calculateCurrentSession(raws, order, loadThrows, t)
    IN  IF sessionResult.ok
        THEN [ret |-> sessionResult.value, cached |-> sessionResult.value,
              stamp |-> t, src |-> "computed"]
        ELSE [ret |-> NoSession, cached |-> cached, stamp |-> stamp, src |-> "failed"]

\* Variant: a failed computation falls back to whatever the memo holds.
getCurrentSession_StaleOnFailure(cached, stamp, raws, order, loadThrows, t) ==
    IF cached # NoSession /\ (t - stamp) < CACHE_DURATION
    THEN [ret |-> cached, cached |-> cached, stamp |-> stamp, src |-> "cache"]
    ELSE LET sessionResult == calculateCurrentSession(raws, order, loadThrows, t)
         IN  IF sessionResult.ok
             THEN [ret |-> sessionResult.value, cached |-> sessionResult.value,
                   stamp |-> t, src |-> "computed"]
             ELSE [ret |-> cached, cached |-> cached, stamp |-> stamp, src |-> "failed"]

\* UnifiedSessionSelector.getCurrentSession as a function of the selector's
\* fields: the returned session, the new fields, and what the call did.
getCurrentSession(cached, stamp, raws, order, loadThrows, t) ==
    IF cached # NoSession /\ (t - stamp) < CACHE_DURATION
    THEN [ret |-> cached, cached |-> cached, stamp |-> stamp, src |-> "cache"]
    ELSE LET sessionResult == calculateCurrentSession(raws, order, loadThrows, t)
         IN  IF sessionResult.ok
             THEN [ret |-> sessionResult.value, cached |-> sessionResult.value,
                   stamp |-> t, src |-> "computed"]
             ELSE [ret |-> NoSession, cached |-> cached, stamp |-> stamp, src |-> "failed"]

\* ------------------------------------------------------------------------
\* System configuration and token limit (SystemConfigManager)
\* ------------------------------------------------------------------------
CACHE_TTL_MS == 5 * 60 * 1000
DYNAMIC_TOKENS_CACHE_TTL_MS == 2 * 60 * 60 * 1000

\* Money: target amounts are in USD, prices in millionths of a USD per token.
USD == 1000000

\* null for cachedDynamicTokens and cachedConfig.
NullTokens == -1

DEFAULT_CONFIG ==
    [token_limits |-> [per_session |-> 100000000],
     burn_rate_thresholds |-> [high |-> 1000, moderate |-> 500, normal |-> 100],
     default_token_threshold |-> [tokens |-> 100000000, pricing_method |-> "litellm_dynamic"],
     pricing_config |-> [use_litellm |-> TRUE, target_usd_amount |-> 40,
                         fallback_tokens |-> 100000000]]

NoConfig ==
    [token_limits |-> [per_session |-> 0],
     burn_rate_thresholds |-> [high |-> 0, moderate |-> 0, normal |-> 0],
     default_token_threshold |-> [tokens |-> 0, pricing_method |-> "null"],
     pricing_config |-> [use_litellm |-> FALSE, target_usd_amount |-> 0,
                         fallback_tokens |-> 0]]

\* Contents of the remote system_config table: for each content, the keys
\* that have a row and the values of those rows.
\*   "seeded"    : the rows inserted by database/add-system-config.sql
\*   "fixed"     : the web interface set a fixed token threshold
\*   "retarget"  : only a pricing_config row, with another target and fallback
\*   "nolitellm" : LiteLLM pricing switched off
DbContents == {"seeded", "fixed", "retarget", "nolitellm"}

DbKeys(db) ==
    CASE db = "seeded" -> {"token_limits", "burn_rate_thresholds", "default_token_threshold", "pricing_config"}
      [] db = "fixed" -> {"token_limits", "default_token_threshold", "pricing_config"}
      [] db = "retarget" -> {"pricing_config"}
      [] db = "nolitellm" -> {"token_limits", "pricing_config"}

DbValue(db) ==
    CASE db = "fixed" ->
            [DEFAULT_CONFIG EXCEPT !.default_token_threshold =
                [tokens |-> 200000000, pricing_method |-> "fixed"]]
      [] db = "retarget" ->
            [DEFAULT_CONFIG EXCEPT !.pricing_config =
                [use_litellm |-> TRUE, target_usd_amount |-> 20, fallback_tokens |-> 50000000]]
      [] db = "nolitellm" ->
            [DEFAULT_CONFIG EXCEPT !.token_limits = [per_session |-> 150000000],
                                   !.pricing_config.use_litellm = FALSE]
      [] OTHER -> DEFAULT_CONFIG

\* SystemConfigManager.fetchConfigFromDatabase: a Result.
fetchConfigFromDatabase(db, dbFails) ==
    IF dbFails \/ DbKeys(db) = {} THEN [ok |-> FALSE, value |-> NoConfig]
    ELSE LET Row(key) == IF key \in DbKeys(db) THEN DbValue(db)[key] ELSE DEFAULT_CONFIG[key]
         IN  [ok |-> TRUE,
              value |-> [token_limits |-> Row("token_limits"),
                         burn_rate_thresholds |-> Row("burn_rate_thresholds"),
                         default_token_threshold |-> Row("default_token_threshold"),
                         pricing_config |-> Row("pricing_config")]]

\* A field of a price-list entry: a number, NaN, or not a number at all.
Num(v) == [kind |-> "number", v |-> v]
NaNValue == [kind |-> "nan", v |-> 0]
Undefined == [kind |-> "undefined", v |-> 0]

\* Price lists the pricing source can answer with (model name -> fields).
\*   "sonnet4"   : the primary reference model, 3 / 15 per million tokens
\*   "sonnet4b"  : the same model under its provider-prefixed name, 5 / 15
\*   "sonnet35"  : only the older generation is listed
\*   "other"     : no reference model is listed
\*   "zero"      : the reference model with a zero input price
\*   "nan"       : the reference model with a NaN output price
\*   "nofield"   : the reference model without the input price field
PriceLists == {"sonnet4", "sonnet4b", "sonnet35", "other", "zero", "nan", "nofield"}

ModelNames ==
    <<"claude-sonnet-4-20250514", "claude-4-sonnet-20250514", "claude-4-sonnet",
      "anthropic/claude-4-sonnet-20250514", "anthropic/claude-sonnet-4-20250514">>

FallbackModelNames ==
    <<"claude-3-5-sonnet-20241022", "anthropic/claude-3-5-sonnet-20241022">>

PricingModels(list) ==
    CASE list = "sonnet4" -> {"claude-sonnet-4-20250514", "gpt-4o"}
      [] list = "sonnet4b" -> {"anthropic/claude-sonnet-4-20250514", "claude-3-5-sonnet-20241022"}
      [] list = "sonnet35" -> {"anthropic/claude-3-5-sonnet-20241022"}
      [] list = "other" -> {"gpt-4o"}
      [] OTHER -> {"claude-sonnet-4-20250514"}

PricingEntry(list, model) ==
    CASE list = "sonnet4b" /\ model = "anthropic/claude-sonnet-4-20250514" ->
            [input_cost_per_token |-> Num(5), output_cost_per_token |-> Num(15)]
      [] list = "zero" ->
            [input_cost_per_token |-> Num(0), output_cost_per_token |-> Num(15)]
      [] list = "nan" ->
            [input_cost_per_token |-> Num(3), output_cost_per_token |-> NaNValue]
      [] list = "nofield" ->
            [input_cost_per_token |-> Undefined, output_cost_per_token |-> Num(15)]
      [] OTHER ->
            [input_cost_per_token |-> Num(3), output_cost_per_token |-> Num(15)]

\* What one price lookup meets: the online fetch yields a price list, or it
\* fails and the offline fetch, made only then, yields a price list or fails.
PricingOutcomes ==
    [online : PriceLists, offline : {"unused"}]
        \cup [online : {"fail"}, offline : {"sonnet4", "fail"}]

\* Math.round(a / b) for a >= 0, b > 0.
RoundDiv(a, b) == (2 * a + b) \div (2 * b)

\* The first name of the sequence that the price list contains, "" if none.
RECURSIVE FirstListed(_, _)
FirstListed(names, models) ==
    IF names = <<>> THEN ""
    ELSE IF Head(names) \in models THEN Head(names)
    ELSE FirstListed(Tail(names), models)

\* SystemConfigManager.calculateDynamicTokenLimit, from the answer of the
\* pricing source on: a Result; on success the caller stores the value.
calculateDynamicTokenLimit(outcome, targetUsdAmount) ==
    LET list == IF outcome.online # "fail" THEN outcome.online ELSE outcome.offline
        Fail == [ok |-> FALSE, value |-> 0]
    IN  IF list = "fail" THEN Fail
        ELSE
        LET primary == FirstListed(ModelNames, PricingModels(list))
            foundModelName == IF primary # "" THEN primary
                              ELSE FirstListed(FallbackModelNames, PricingModels(list))
        IN  IF foundModelName = "" THEN Fail
            ELSE
            LET model == PricingEntry(list, foundModelName)
                inputCost == model.input_cost_per_token
                outputCost == model.output_cost_per_token
            IN  IF \/ inputCost.kind = "undefined" \/ outputCost.kind = "undefined"
                   \/ inputCost.kind = "nan" \/ outputCost.kind = "nan"
                   \/ inputCost.v <= 0 \/ outputCost.v <= 0
                THEN Fail
                ELSE
                \* avgPricePerToken = (inputCost + outputCost) / 2
                LET twiceAvg == inputCost.v + outputCost.v
                    calculatedTokens == RoundDiv(2 * targetUsdAmount * USD, twiceAvg)
                IN  IF twiceAvg <= 0 \/ calculatedTokens <= 0 THEN Fail
                    ELSE [ok |-> TRUE, value |-> calculatedTokens]

\* Variant: the dynamic-threshold cache is never consulted.
tokenLimitDecision_NoCache(config, cachedTokens, cacheExpiryAt, t) ==
    IF config.default_token_threshold.pricing_method = "fixed"
    THEN [how |-> "fixed", value |-> config.default_token_threshold.tokens]
    ELSE IF config.pricing_config.use_litellm
            /\ config.default_token_threshold.pricing_method = "litellm_dynamic"
    THEN [how |-> "lookup", value |-> 0]
    ELSE [how |-> "per_session", value |-> config.token_limits.per_session]

\* Variant: the dynamic-threshold cache is consulted before the pricing method.
tokenLimitDecision_CacheFirst(config, cachedTokens, cacheExpiryAt, t) ==
    IF cachedTokens # NullTokens /\ cachedTokens > 0 /\ t < cacheExpiryAt
    THEN [how |-> "cached", value |-> cachedTokens]
    ELSE IF config.default_token_threshold.pricing_method = "fixed"
    THEN [how |-> "fixed", value |-> config.default_token_threshold.tokens]
    ELSE IF config.pricing_config.use_litellm
            /\ config.default_token_threshold.pricing_method = "litellm_dynamic"
    THEN [how |-> "lookup", value |-> 0]
    ELSE [how |-> "per_session", value |-> config.token_limits.per_session]

\* getTokenLimit, lines 524-558, once the config is known: what the call
\* does next given the dynamic-threshold cache.
\*   "fixed" / "per_session" / "cached": it returns `value` at once
\*   "lookup": it goes on to calculateDynamicTokenLimit
tokenLimitDecision(config, cachedTokens, cacheExpiryAt, t) ==
    IF config.default_token_threshold.pricing_method = "fixed"
    THEN [how |-> "fixed", value |-> config.default_token_threshold.tokens]
    ELSE IF config.pricing_config.use_litellm
            /\ config.default_token_threshold.pricing_method = "litellm_dynamic"
    THEN LET hasValidCachedTokens == cachedTokens # NullTokens /\ cachedTokens > 0
             cacheNotExpired == t < cacheExpiryAt
         IN  IF hasValidCachedTokens /\ cacheNotExpired
             THEN [how |-> "cached", value |-> cachedTokens]
             ELSE [how |-> "lookup", value |-> 0]
    ELSE [how |-> "per_session", value |-> config.token_limits.per_session]

\* Variant: a failed lookup pins the fallback value for the whole TTL.
storeDynamicTokens_CachesFailure(result, cachedTokens, cacheExpiryAt, t) ==
    IF result.ok
    THEN [tokens |-> result.value, expiry |-> t + DYNAMIC_TOKENS_CACHE_TTL_MS]
    ELSE [tokens |-> 100000000, expiry |-> t + DYNAMIC_TOKENS_CACHE_TTL_MS]

\* calculateDynamicTokenLimit, lines 664-666: the dynamic-threshold cache
\* after a lookup that ended with `result` at time t.
storeDynamicTokens(result, cachedTokens, cacheExpiryAt, t) ==
    IF result.ok
    THEN [tokens |-> result.value, expiry |-> t + DYNAMIC_TOKENS_CACHE_TTL_MS]
    ELSE [tokens |-> cachedTokens, expiry |-> cacheExpiryAt]

\* Variant: a failed lookup is handed to the caller as a failure.
tokenLimitAfterLookup_Escalates(config, dynamicTokens) ==
    IF dynamicTokens.ok
    THEN [ok |-> TRUE, how |-> "lookup", value |-> dynamicTokens.value]
    ELSE [ok |-> FALSE, how |-> "fallback", value |-> 0]

\* getTokenLimit, lines 548-554: what the call returns after the lookup.
tokenLimitAfterLookup(config, dynamicTokens) ==
    IF dynamicTokens.ok
    THEN [ok |-> TRUE, how |-> "lookup", value |-> dynamicTokens.value]
    ELSE [ok |-> TRUE, how |-> "fallback", value |-> config.pricing_config.fallback_tokens]

\* ------------------------------------------------------------------------
\* Team statistics (TeamService.getTeamStats)
\* ------------------------------------------------------------------------
TEAM_INFO_CACHE_TTL == 5 * 60 * 1000
TEAMMATE_DATA_CACHE_TTL == 30 * 1000
MAX_RETRIES == 3
RETRY_DELAY == 1000

\* The team watched, the local actor, and the users known to the remote store.
TeamId == "T1"
Me == "me"
Users == {"me", "u1", "u2"}

\* undefined for last_activity
NoTime == 0

\* Rows that the usage_sessions table of the team can hold (costs in cents).
UsageRows ==
    { [user_id |-> "u1", session_id |-> "P1", is_active |-> TRUE,
       token_counts |-> <<3, 2, 1, 0>>, cost_usd |-> 4,
       start_time |-> StartTime - 1 * HOUR, updated_at |-> StartTime - 2 * MINUTE],
      [user_id |-> "u1", session_id |-> "P0", is_active |-> FALSE,
       token_counts |-> <<1, 1, 0, 0>>, cost_usd |-> 1,
       start_time |-> StartTime - 8 * HOUR, updated_at |-> StartTime - 6 * HOUR],
      [user_id |-> "me", session_id |-> "A", is_active |-> TRUE,
       token_counts |-> <<9, 9, 9, 9>>, cost_usd |-> 9,
       start_time |-> StartTime - 5 * HOUR - 10 * MINUTE, updated_at |-> StartTime - 20 * MINUTE] }

\* The absent cache entry (Map.get returning undefined) of the team-info
\* cache, whose data is a member list, and of the teammate cache, whose data
\* is a list of rows.
NoTeamEntry == [present |-> FALSE, data |-> {}, timestamp |-> 0, expiresAt |-> 0]
NoPeerEntry == [present |-> FALSE, data |-> <<>>, timestamp |-> 0, expiresAt |-> 0]

\* TeamService.createCacheEntry
createCacheEntry(data, ttl, t) ==
    [present |-> TRUE, data |-> data, timestamp |-> t, expiresAt |-> t + ttl]

\* Variant of isCacheValid: an entry is still served at the instant it expires.
isCacheValid_Inclusive(entry, t) ==
    IF ~entry.present THEN FALSE ELSE t <= entry.expiresAt

\* TeamService.isCacheValid
isCacheValid(entry, t) ==
    IF ~entry.present THEN FALSE ELSE t < entry.expiresAt

\* TeamService.cleanupExpiredCache, for one entry
cleanupExpiredCache(entry, none, t) ==
    IF entry.present /\ t >= entry.expiresAt THEN none ELSE entry

\* getTotalTokens: the sum of the four counters.
getTotalTokens(tokenCounts) ==
    tokenCounts[1] + tokenCounts[2] + tokenCounts[3] + tokenCounts[4]

\* Array.prototype.reduce((sum, x) => sum + F(x), 0)
RECURSIVE SumNums(_)
SumNums(nums) ==
    IF nums = <<>> THEN 0 ELSE Head(nums) + SumNums(Tail(nums))

SumSeq(seq, F(_)) == SumNums([i \in 1..Len(seq) |-> F(seq[i])])

\* Math.max(...nums) for a non-empty list
RECURSIVE MaxNums(_)
MaxNums(nums) ==
    IF Len(nums) = 1 THEN Head(nums)
    ELSE LET rest == MaxNums(Tail(nums))
         IN  IF Head(nums) >= rest THEN Head(nums) ELSE rest

MaxSeq(seq, F(_)) == MaxNums([i \in 1..Len(seq) |-> F(seq[i])])

\* Variant: the current user is treated like any other member, from the peer rows.
memberStat_ActorFromPeerRows(member, currentUserId, currentSession, teammatesSessions) ==
    LET OfMember(row) == row.user_id = member
        Tokens(row) == row.token_counts[1] + row.token_counts[2]
                       + row.token_counts[3] + row.token_counts[4]
        Cost(row) == row.cost_usd
        Updated(row) == IF row.updated_at # NoTime THEN row.updated_at ELSE row.start_time
        memberSessions == SelectSeq(teammatesSessions, OfMember)
    IN  [user_id |-> member,
         is_active |-> \E i \in 1..Len(memberSessions) : memberSessions[i].is_active,
         current_tokens |-> SumSeq(memberSessions, Tokens),
         current_cost |-> SumSeq(memberSessions, Cost),
         last_activity |-> IF Len(memberSessions) > 0
                           THEN MaxSeq(memberSessions, Updated) ELSE NoTime]

\* Variant: a teammate is active only if all of their rows are, and the
\* cache-read counter is left out of their tokens.
memberStat_AllRowsActive(member, currentUserId, currentSession, teammatesSessions) ==
    IF member = currentUserId
    THEN IF currentSession # NoSession
         THEN [user_id |-> member,
               is_active |-> currentSession.isActive,
               current_tokens |-> getTotalTokens(currentSession.tokens),
               current_cost |-> currentSession.costUSD,
               last_activity |-> IF currentSession.actualEndTime # NoTime
                                 THEN currentSession.actualEndTime
                                 ELSE currentSession.startTime]
         ELSE [user_id |-> member, is_active |-> FALSE, current_tokens |-> 0,
               current_cost |-> 0, last_activity |-> NoTime]
    ELSE LET OfMember(row) == row.user_id = member
             Tokens(row) == row.token_counts[1] + row.token_counts[2]
                            + row.token_counts[3]
             Cost(row) == row.cost_usd
             Updated(row) == IF row.updated_at # NoTime THEN row.updated_at ELSE row.start_time
             memberSessions == SelectSeq(teammatesSessions, OfMember)
         IN  [user_id |-> member,
              is_active |-> \A i \in 1..Len(memberSessions) : memberSessions[i].is_active,
              current_tokens |-> SumSeq(memberSessions, Tokens),
              current_cost |-> SumSeq(memberSessions, Cost),
              last_activity |-> IF Len(memberSessions) > 0
                                THEN MaxSeq(memberSessions, Updated) ELSE NoTime]

\* getTeamStats, lines 464-515: the statistics of one member.
memberStat(member, currentUserId, currentSession, teammatesSessions) ==
    IF member = currentUserId
    THEN IF currentSession # NoSession
         THEN [user_id |-> member,
               is_active |-> currentSession.isActive,
               current_tokens |-> getTotalTokens(currentSession.tokens),
               current_cost |-> currentSession.costUSD,
               last_activity |-> IF currentSession.actualEndTime # NoTime
                                 THEN currentSession.actualEndTime
                                 ELSE currentSession.startTime]
         ELSE [user_id |-> member, is_active |-> FALSE, current_tokens |-> 0,
               current_cost |-> 0, last_activity |-> NoTime]
    ELSE LET OfMember(row) == row.user_id = member
             Tokens(row) == row.token_counts[1] + row.token_counts[2]
                            + row.token_counts[3] + row.token_counts[4]
             Cost(row) == row.cost_usd
             Updated(row) == IF row.updated_at # NoTime THEN row.updated_at ELSE row.start_time
             memberSessions == SelectSeq(teammatesSessions, OfMember)
         IN  [user_id |-> member,
              is_active |-> \E i \in 1..Len(memberSessions) : memberSessions[i].is_active,
              current_tokens |-> SumSeq(memberSessions, Tokens),
              current_cost |-> SumSeq(memberSessions, Cost),
              last_activity |-> IF Len(memberSessions) > 0
                                THEN MaxSeq(memberSessions, Updated) ELSE NoTime]

\* Variant: the totals are taken over the fetched peer rows, not over the
\* member statistics.
teamTotals_OverPeerRows(memberStats, teammatesSessions) ==
    LET Tokens(row) == getTotalTokens(row.token_counts)
        Cost(row) == row.cost_usd
        Active(m) == IF m.is_active THEN 1 ELSE 0
    IN  [total_tokens |-> SumSeq(teammatesSessions, Tokens),
         total_cost |-> SumSeq(teammatesSessions, Cost),
         active_members_count |-> SumSeq(memberStats, Active)]

\* getTeamStats, lines 518-520: the totals.
teamTotals(memberStats, teammatesSessions) ==
    LET Tokens(m) == m.current_tokens
        Cost(m) == m.current_cost
        IsActive(m) == m.is_active
    IN  [total_tokens |-> SumSeq(memberStats, Tokens),
         total_cost |-> SumSeq(memberStats, Cost),
         active_members_count |-> Len(SelectSeq(memberStats, IsActive))]

\* burn_rate: null
NoBurnRate ==
    [present |-> FALSE, tokens_per_minute |-> [num |-> 0, den |-> 1],
     cost_per_hour |-> [num |-> 0, den |-> 1], indicator |-> "none"]

\* q > k for a quotient q = num / den of naturals (den > 0) and a natural k,
\* without forming k * den.
Exceeds(q, k) ==
    \/ q.num \div k > q.den
    \/ (q.num \div k = q.den /\ q.num % k # 0)

\* Variant: a burn rate is computed for any local window, active or not.
burnRate_AnyWindow(currentSession, totalTokens, totalCost, t) ==
    IF currentSession # NoSession
    THEN LET durationMs == t - currentSession.startTime
             tokensPerMinute == [num |-> totalTokens * 1000 * 60, den |-> durationMs]
             costPerHour == [num |-> totalCost * 1000 * 60 * 60, den |-> durationMs]
         IN  IF durationMs > 0
             THEN [present |-> TRUE,
                   tokens_per_minute |-> tokensPerMinute,
                   cost_per_hour |-> costPerHour,
                   indicator |->
                       IF Exceeds(tokensPerMinute, 1000) THEN "HIGH"
                       ELSE IF Exceeds(tokensPerMinute, 500) THEN "MODERATE"
                       ELSE "NORMAL"]
             ELSE NoBurnRate
    ELSE NoBurnRate

\* getTeamStats, lines 522-540: the burn rate. durationMinutes is
\* durationMs / (1000 * 60); the quotients totalTokens / durationMinutes and
\* (totalCost / durationMinutes) * 60 are kept as fractions num / den.
burnRate(currentSession, totalTokens, totalCost, t) ==
    IF currentSession # NoSession /\ currentSession.isActive
    THEN LET durationMs == t - currentSession.startTime
             tokensPerMinute == [num |-> totalTokens * 1000 * 60, den |-> durationMs]
             costPerHour == [num |-> totalCost * 1000 * 60 * 60, den |-> durationMs]
         IN  IF durationMs > 0
             THEN [present |-> TRUE,
                   tokens_per_minute |-> tokensPerMinute,
                   cost_per_hour |-> costPerHour,
                   indicator |->
                       IF Exceeds(tokensPerMinute, 1000) THEN "HIGH"
                       ELSE IF Exceeds(tokensPerMinute, 500) THEN "MODERATE"
                       ELSE "NORMAL"]
             ELSE NoBurnRate
    ELSE NoBurnRate

\* getTeamStats, lines 464-540 and 565-575: the statistics returned.
teamStats(members, currentUserId, currentSession, teammatesSessions, t) ==
    LET memberSeq == SetToSeq(members)
        memberStats == [i \in 1..Len(memberSeq) |->
                           memberStat(memberSeq[i], currentUserId, currentSession, teammatesSessions)]
        totals == teamTotals(memberStats, teammatesSessions)
    IN  [members |-> members,
         current_session |-> currentSession,
         member_stats |-> memberStats,
         total_tokens |-> totals.total_tokens,
         total_cost |-> totals.total_cost,
         active_members_count |-> totals.active_members_count,
         burn_rate |-> burnRate(currentSession, totals.total_tokens, totals.total_cost, t)]

NoStats == teamStats({}, Me, NoSession, <<>>, 0)

\* What one attempt meets: the first remote read that fails, if any (the
\* teams row, the team_members rows, the usage_sessions rows), and whether
\* loadSessionBlockData throws.
AttemptOutcomes ==
    [fails : {"none", "team", "members", "sessions"}, loadThrows : BOOLEAN]

\* What a call meets first: getSupabaseClient may fail before any attempt.
CallOutcomes ==
    AttemptOutcomes \cup [fails : {"client"}, loadThrows : {FALSE}]

\* withRetry: what follows attempt number n.
withRetryStep_NoRetry(n, threw) ==
    IF ~threw THEN "success" ELSE "fail"

withRetryStep(n, threw) ==
    IF ~threw THEN "success"
    ELSE IF n < MAX_RETRIES THEN "retry"
    ELSE "fail"

\* The usage_sessions query of lines 442-447: the team's rows of other users,
\* most recent start first.
RECURSIVE RowsToSeq(_)
RowsToSeq(rows) ==
    IF rows = {} THEN <<>>
    ELSE LET r == CHOOSE x \in rows : \A y \in rows : x.start_time >= y.start_time
         IN  <<r>> \o RowsToSeq(rows \ {r})

queryTeammateSessions(rows, currentUserId) ==
    RowsToSeq({r \in rows : r.user_id # currentUserId})

\* One run of the operation that getTeamStats hands to withRetry (lines
\* 384-576) at time t: whether it throws, the caches and the selector fields
\* it leaves, the statistics it returns, and what it did.
statsAttempt(teamEntry, peerEntry, cached, stamp, members, rows, raws, order, o, t) ==
    LET teamValid == isCacheValid(teamEntry, t)
        teamThrows == ~teamValid /\ o.fails \in {"team", "members"}
        teamEntry1 == IF teamValid \/ teamThrows THEN teamEntry
                      ELSE createCacheEntry(members, TEAM_INFO_CACHE_TTL, t)
        sel == getCurrentSession(cached, stamp, raws, order, o.loadThrows, t)
        peerValid == isCacheValid(peerEntry, t)
        peerThrows == ~peerValid /\ o.fails = "sessions"
        peerEntry1 == IF peerValid \/ peerThrows THEN peerEntry
                      ELSE createCacheEntry(queryTeammateSessions(rows, Me),
                                            TEAMMATE_DATA_CACHE_TTL, t)
    IN  IF teamThrows
        THEN [threw |-> TRUE, teamEntry |-> teamEntry, peerEntry |-> peerEntry,
              cached |-> cached, stamp |-> stamp, stats |-> NoStats,
              teamSrc |-> "failed", peerSrc |-> "unreached", localThrew |-> FALSE]
        ELSE IF peerThrows
        THEN [threw |-> TRUE, teamEntry |-> teamEntry1, peerEntry |-> peerEntry,
              cached |-> sel.cached, stamp |-> sel.stamp, stats |-> NoStats,
              teamSrc |-> IF teamValid THEN "cache" ELSE "remote", peerSrc |-> "failed",
              localThrew |-> sel.src = "failed"]
        ELSE [threw |-> FALSE, teamEntry |-> teamEntry1, peerEntry |-> peerEntry1,
              cached |-> sel.cached, stamp |-> sel.stamp,
              stats |-> teamStats(teamEntry1.data, Me, sel.ret, peerEntry1.data, t),
              teamSrc |-> IF teamValid THEN "cache" ELSE "remote",
              peerSrc |-> IF peerValid THEN "cache" ELSE "remote",
              localThrew |-> sel.src = "failed"]

\* getTokenLimit calls that may be in flight at the same time.
MaxInFlight == 2

\* ------------------------------------------------------------------------
\* State
\* ------------------------------------------------------------------------
VARIABLES
    now,             \* Date.now()
    ticks,           \* clock advances so far
    candidates,      \* the windows present in the local usage files
    order,           \* config.order of the selector
    cachedSession,   \* UnifiedSessionSelector.cachedSession
    cacheTimestamp,  \* UnifiedSessionSelector.cacheTimestamp
    selLast,         \* the most recent getCurrentSession call: time, result, source
    selPrev,         \* the call before it
    selFill,         \* the most recent call that computed its result
    selCleared,      \* clearCache() was called since selLast
    selFresh,        \* nothing has happened since selLast returned
    dbConfig,        \* content of the remote system_config table
    cachedConfig,    \* SystemConfigManager.cachedConfig
    cacheExpiry,     \* SystemConfigManager.cacheExpiry
    cachedDynamicTokens,       \* SystemConfigManager.cachedDynamicTokens
    dynamicTokensCacheExpiry,  \* SystemConfigManager.dynamicTokensCacheExpiry
    tlCalls,         \* getTokenLimit calls in flight: where each one waits
    tlLast,          \* the getTokenLimit call that has just returned
    tlFill,          \* the last successful price lookup (none after clearCache)
    tlFresh,         \* nothing has happened since tlLast returned
    remoteMembers,   \* user ids of the team's active team_members rows
    remoteSessions,  \* the team's usage_sessions rows
    teamInfoCache,          \* TeamService.teamInfoCache, the entry of `team-T1`
    teammateSessionsCache,  \* TeamService.teammateSessionsCache, the entry of `teammates-T1-me`
    stPc,            \* getTeamStats: "idle", "retry" (waiting to retry) or "done"
    stAttempt,       \* withRetry: attempts made by the call in progress
    stResult,        \* the Result of the getTeamStats call that has just returned
    stInfo,          \* what the attempt that has just run saw and did
    fnArgs,          \* the arguments of a function applied on its own
    fnResult         \* what that function returned, once it has been applied

selVars == <<candidates, order, cachedSession, cacheTimestamp, selLast, selPrev, selFill, selCleared, selFresh>>
cfgVars == <<dbConfig, cachedConfig, cacheExpiry, cachedDynamicTokens, dynamicTokensCacheExpiry,
             tlCalls, tlLast, tlFill, tlFresh>>
teamVars == <<remoteMembers, remoteSessions, teamInfoCache, teammateSessionsCache,
              stPc, stAttempt, stResult, stInfo>>
fnVars == <<fnArgs, fnResult>>
vars == <<now, ticks, selVars, cfgVars, teamVars, fnVars>>

NoCall ==
    [t |-> 0, id |-> "none", src |-> "never", cleared |-> FALSE, threw |-> FALSE]

InitSelector ==
    /\ candidates \in SUBSET RawWindows
    /\ order \in {"desc", "asc"}
    /\ cachedSession = NoSession
    /\ cacheTimestamp = 0
    /\ selLast = NoCall
    /\ selPrev = [t |-> 0, id |-> "none", src |-> "never"]
    /\ selFill = NoCall
    /\ selCleared = FALSE
    /\ selFresh = FALSE

NoFill == [t |-> 0, value |-> NullTokens]

NoLimit == [ok |-> FALSE, how |-> "never", value |-> 0, config |-> NoConfig]

InitConfig ==
    /\ cachedConfig = NoConfig
    /\ cacheExpiry = 0
    /\ cachedDynamicTokens = NullTokens
    /\ dynamicTokensCacheExpiry = 0
    /\ tlCalls = EmptyBag
    /\ tlLast = NoLimit
    /\ tlFill = NoFill
    /\ tlFresh = FALSE

\* What an attempt saw and did: for each cache whether the call found an
\* entry and the time that entry had left (expiresAt minus the time of the
\* check), where the data came from, and whether the local load threw.
NoInfo ==
    [teamHad |-> FALSE, teamLeft |-> 0, teamSrc |-> "never",
     peerHad |-> FALSE, peerLeft |-> 0, peerSrc |-> "never",
     localThrew |-> FALSE]

\* No call has just returned.
NoResult == [returned |-> FALSE, ok |-> FALSE, stats |-> NoStats]

\* The caller has taken the Result; what the last attempt saw is past.
ResultTaken ==
    /\ stResult' = NoResult
    /\ stInfo' = NoInfo

InitTeam ==
    /\ remoteMembers = {"me", "u1"}
    /\ remoteSessions = {r \in UsageRows : r.session_id # "P1"}
    /\ teamInfoCache = NoTeamEntry
    /\ teammateSessionsCache = NoPeerEntry
    /\ stPc = "idle"
    /\ stAttempt = 0
    /\ stResult = NoResult
    /\ stInfo = NoInfo

\* The services after construction.
InitServices ==
    /\ now = StartTime
    /\ ticks = 0
    /\ InitSelector
    /\ dbConfig = "seeded"
    /\ InitConfig
    /\ InitTeam

\* No function is applied on its own.
NoArgs == [fn |-> "none"]
NotApplied == [done |-> FALSE]

Init ==
    /\ InitServices
    /\ fnArgs = NoArgs
    /\ fnResult = NotApplied

\* Time passes.
Tick(deltas) ==
    /\ ticks < MaxTicks
    /\ \E d \in deltas : now' = now + d
    /\ ticks' = ticks + 1

SelectorDeltas == {1, CACHE_DURATION - 1}

TickSelector ==
    /\ Tick(SelectorDeltas)
    /\ selFresh' = FALSE
    /\ UNCHANGED <<cfgVars, teamVars, fnVars>>
    /\ UNCHANGED <<candidates, order, cachedSession, cacheTimestamp, selLast, selPrev, selFill, selCleared>>

\* New activity is recorded (or usage files disappear): the builder's
\* candidate list changes.
ActivityChanges ==
    /\ \E c \in SUBSET RawWindows : c # candidates /\ candidates' = c
    /\ selFresh' = FALSE
    /\ UNCHANGED <<cfgVars, teamVars, fnVars>>
    /\ UNCHANGED <<now, ticks, order, cachedSession, cacheTimestamp, selLast, selPrev, selFill, selCleared>>

\* The non-gap windows of raws that are in the given state at time t.
IdsInState(raws, state, t) ==
    {r.id : r \in {x \in raws : ~x.isGap
                    /\ calculateSessionState(x.startTime, x.endTime, x.actualEndTime, t) = state}}

\* One getCurrentSession call; loadThrows is whether loadSessionBlockData throws.
GetCurrentSession(loadThrows) ==
    LET r == getCurrentSession(cachedSession, cacheTimestamp, candidates, order, loadThrows, now)
        call == [t |-> now, id |-> r.ret.id, src |-> r.src, cleared |-> selCleared,
                 threw |-> loadThrows /\ r.src # "cache"]
    IN  /\ cachedSession' = r.cached
        /\ cacheTimestamp' = r.stamp
        /\ selPrev' = [t |-> selLast.t, id |-> selLast.id, src |-> selLast.src]
        /\ selLast' = call
        /\ selFill' = IF r.src = "computed" THEN call ELSE selFill
        /\ selCleared' = FALSE
        /\ selFresh' = TRUE
        /\ UNCHANGED <<cfgVars, teamVars, fnVars>>
        /\ UNCHANGED <<now, ticks, candidates, order>>

\* Variant: clearCache leaves the memo and its timestamp in place.
SelectorClearCache_KeepsMemo ==
    /\ selCleared' = TRUE
    /\ selFill' = NoCall
    /\ selFresh' = FALSE
    /\ UNCHANGED <<cfgVars, teamVars, fnVars>>
    /\ UNCHANGED <<now, ticks, candidates, order, selLast, selPrev, cachedSession, cacheTimestamp>>

\* UnifiedSessionSelector.clearCache
SelectorClearCache ==
    /\ cachedSession' = NoSession
    /\ cacheTimestamp' = 0
    /\ selCleared' = TRUE
    /\ selFill' = NoCall
    /\ selFresh' = FALSE
    /\ UNCHANGED <<cfgVars, teamVars, fnVars>>
    /\ UNCHANGED <<now, ticks, candidates, order, selLast, selPrev>>

NextSelector ==
    \/ TickSelector
    \/ ActivityChanges
    \/ \E loadThrows \in BOOLEAN : GetCurrentSession(loadThrows)
    \/ SelectorClearCache

SpecSelector == Init /\ [][NextSelector]_vars

\* ------------------------------------------------------------------------
\* SystemConfigManager: actions
\* ------------------------------------------------------------------------
ConfigDeltas == {1, DYNAMIC_TOKENS_CACHE_TTL_MS - 1}

\* The caller has taken the Result of the call that had just returned.
TokenLimitTaken ==
    /\ tlFresh' = FALSE
    /\ tlLast' = NoLimit

TickConfig ==
    /\ Tick(ConfigDeltas)
    /\ TokenLimitTaken
    /\ UNCHANGED <<selVars, teamVars, fnVars>>
    /\ UNCHANGED <<dbConfig, cachedConfig, cacheExpiry, cachedDynamicTokens, dynamicTokensCacheExpiry,
                   tlCalls, tlFill>>

\* The web interface rewrites the system_config table.
DbConfigChanges ==
    /\ \E db \in DbContents : db # dbConfig /\ dbConfig' = db
    /\ TokenLimitTaken
    /\ UNCHANGED <<now, ticks, selVars, teamVars, fnVars>>
    /\ UNCHANGED <<cachedConfig, cacheExpiry, cachedDynamicTokens, dynamicTokensCacheExpiry,
                   tlCalls, tlFill>>

\* A getTokenLimit call waiting for the system_config rows, and one waiting
\* for the pricing source under the config it resolved.
WaitsForConfig == [pc |-> "config", config |-> NoConfig]
WaitsForPricing(config) == [pc |-> "pricing", config |-> config]

\* A call returns r under the effective config.
TokenLimitReturns(r, config) ==
    /\ tlLast' = [ok |-> r.ok, how |-> r.how, value |-> r.value, config |-> config]
    /\ tlFresh' = TRUE

\* getTokenLimit from line 521 on, for a call that has left `rest` in flight:
\* it returns at once or starts the price lookup.
TokenLimitDecides(rest, config) ==
    \E d \in {tokenLimitDecision(config, cachedDynamicTokens, dynamicTokensCacheExpiry, now)} :
        IF d.how = "lookup"
        THEN /\ tlCalls' = rest (+) SetToBag({WaitsForPricing(config)})
             /\ TokenLimitTaken
        ELSE /\ tlCalls' = rest
             /\ TokenLimitReturns([ok |-> TRUE, how |-> d.how, value |-> d.value], config)

\* getTokenLimit is called: getConfig answers from its cache, or the call
\* waits for the system_config rows.
TokenLimitBegin ==
    /\ BagCardinality(tlCalls) < MaxInFlight
    /\ IF cachedConfig # NoConfig /\ now < cacheExpiry
       THEN TokenLimitDecides(tlCalls, cachedConfig)
       ELSE /\ tlCalls' = tlCalls (+) SetToBag({WaitsForConfig})
            /\ TokenLimitTaken
    /\ UNCHANGED <<now, ticks, selVars, teamVars, fnVars>>
    /\ UNCHANGED <<dbConfig, cachedConfig, cacheExpiry, cachedDynamicTokens,
                   dynamicTokensCacheExpiry, tlFill>>

\* getConfig, lines 443-458: the rows arrive (or the read fails) for a waiting
\* call, and getTokenLimit goes on.
TokenLimitConfigFetched(dbFails) ==
    /\ BagIn(WaitsForConfig, tlCalls)
    /\ \E configResult \in {fetchConfigFromDatabase(dbConfig, dbFails)},
          rest \in {tlCalls (-) SetToBag({WaitsForConfig})} :
           IF configResult.ok
           THEN /\ cachedConfig' = configResult.value
                /\ cacheExpiry' = now + CACHE_TTL_MS
                /\ TokenLimitDecides(rest, configResult.value)
           ELSE /\ UNCHANGED <<cachedConfig, cacheExpiry>>
                /\ TokenLimitDecides(rest, DEFAULT_CONFIG)
    /\ UNCHANGED <<now, ticks, selVars, teamVars, fnVars>>
    /\ UNCHANGED <<dbConfig, cachedDynamicTokens, dynamicTokensCacheExpiry, tlFill>>

\* calculateDynamicTokenLimit from line 576 on and getTokenLimit lines
\* 548-554: the pricing source answers a call waiting for it.
TokenLimitPricingFetched(call, outcome) ==
    /\ call.pc = "pricing"
    /\ BagIn(call, tlCalls)
    /\ \E config \in {call.config} :
       \E dynamicTokens \in {calculateDynamicTokenLimit(outcome, config.pricing_config.target_usd_amount)} :
       \E stored \in {storeDynamicTokens(dynamicTokens, cachedDynamicTokens, dynamicTokensCacheExpiry, now)} :
           /\ cachedDynamicTokens' = stored.tokens
           /\ dynamicTokensCacheExpiry' = stored.expiry
           /\ tlFill' = IF dynamicTokens.ok THEN [t |-> now, value |-> dynamicTokens.value] ELSE tlFill
           /\ tlCalls' = tlCalls (-) SetToBag({call})
           /\ TokenLimitReturns(tokenLimitAfterLookup(config, dynamicTokens), config)
    /\ UNCHANGED <<now, ticks, selVars, teamVars, fnVars>>
    /\ UNCHANGED <<dbConfig, cachedConfig, cacheExpiry>>

\* SystemConfigManager.clearCache. The pricing fetcher it also disposes of is
\* created anew by the next lookup; a lookup's outcome does not depend on it.
clearCacheEffect ==
    /\ cachedConfig' = NoConfig
    /\ cacheExpiry' = 0
    /\ cachedDynamicTokens' = NullTokens
    /\ dynamicTokensCacheExpiry' = 0
    /\ tlFill' = NoFill
    /\ TokenLimitTaken

ConfigClearCache ==
    /\ clearCacheEffect
    /\ UNCHANGED <<now, ticks, selVars, teamVars, fnVars>>
    /\ UNCHANGED <<dbConfig, tlCalls>>

\* SystemConfigManager.updateConfig, when the upsert succeeds (a failed upsert
\* changes nothing).
UpdateConfig(db) ==
    /\ dbConfig' = db
    /\ clearCacheEffect
    /\ UNCHANGED <<now, ticks, selVars, teamVars, fnVars>>
    /\ UNCHANGED tlCalls

NextConfig ==
    \/ TickConfig
    \/ DbConfigChanges
    \/ TokenLimitBegin
    \/ \E dbFails \in BOOLEAN : TokenLimitConfigFetched(dbFails)
    \/ \E call \in BagToSet(tlCalls), outcome \in PricingOutcomes :
            TokenLimitPricingFetched(call, outcome)
    \/ ConfigClearCache
    \/ \E db \in DbContents : UpdateConfig(db)

InitConfigSpec ==
    /\ Init
    /\ candidates = {}
    /\ order = "desc"

SpecConfig == InitConfigSpec /\ [][NextConfig]_vars

\* ------------------------------------------------------------------------
\* Properties of the token-limit resolver
\* ------------------------------------------------------------------------

\* The dynamic-threshold cache would be served now.
DynamicCacheValid ==
    /\ cachedDynamicTokens # NullTokens
    /\ cachedDynamicTokens > 0
    /\ now < dynamicTokensCacheExpiry

\* Price lookups in flight.
LookupsInFlight == BagCardinality(tlCalls) - CopiesIn(WaitsForConfig, tlCalls)

\* C4: a getTokenLimit call whose price lookup fails leaves the
\* dynamic-threshold cache as it found it, and a value is served from that
\* cache only if a successful lookup put it there, so that a call after a
\* failure looks the price up again.
C4_FailedLookupIsNotCached ==
    [][ /\ (tlFresh' /\ tlLast'.how = "fallback")
            => UNCHANGED <<cachedDynamicTokens, dynamicTokensCacheExpiry>>
        /\ (tlFresh' /\ tlLast'.how = "cached")
            => (tlFill # NoFill /\ tlLast'.value = tlFill.value) ]_vars

\* C4 witness: a call has just returned after a failed lookup and the cache
\* is still empty.
C4_Witness ==
    /\ tlFresh
    /\ tlLast.how = "fallback"
    /\ cachedDynamicTokens = NullTokens
    /\ ~DynamicCacheValid

C9_CachedForTwoHours ==
    [][ tlFill # NoFill
        => /\ (now < tlFill.t + DYNAMIC_TOKENS_CACHE_TTL_MS)
                => LookupsInFlight' <= LookupsInFlight
           /\ (tlFresh' /\ tlLast'.how = "cached")
                => /\ tlLast'.value = tlFill.value
                   /\ now < tlFill.t + DYNAMIC_TOKENS_CACHE_TTL_MS
           /\ (now >= tlFill.t + DYNAMIC_TOKENS_CACHE_TTL_MS /\ tlFresh')
                => tlLast'.how # "cached" ]_vars

\* C9 witness: a call served from the cache in the last millisecond of the TTL.
C9_Witness ==
    /\ tlFresh
    /\ tlLast.how = "cached"
    /\ tlLast.value = tlFill.value
    /\ now = tlFill.t + DYNAMIC_TOKENS_CACHE_TTL_MS - 1

\* C10: under a config with pricing method `fixed` a call returns the
\* configured token count, and no price lookup is made under such a config.
C10_FixedMethodSkipsLookup ==
    /\ tlLast.config.default_token_threshold.pricing_method = "fixed"
        => /\ tlLast.ok
           /\ tlLast.how = "fixed"
           /\ tlLast.value = tlLast.config.default_token_threshold.tokens
    /\ \A call \in BagToSet(tlCalls) :
            call.config.default_token_threshold.pricing_method # "fixed"

\* C10 witness: a call under the fixed method returned the fixed count while
\* the dynamic-threshold cache held a valid, different value.
C10_Witness ==
    /\ tlFresh
    /\ tlLast.how = "fixed"
    /\ tlLast.value = 200000000
    /\ DynamicCacheValid
    /\ cachedDynamicTokens # tlLast.value

\* C11 (as stated): overlapping getTokenLimit calls make at most one price
\* lookup: no second call is between its check of the dynamic-threshold cache
\* and the population of that cache while a first one is.
C11_AtMostOneLookupInFlight ==
    LookupsInFlight <= 1

\* C37 (as stated): a value served from the dynamic-threshold cache is a
\* token count that some price list yields for the target USD amount of the
\* config the call runs under.
C37_CachedValueIsForEffectiveTarget ==
    (tlFresh /\ tlLast.how = "cached")
    => \E outcome \in PricingOutcomes :
          calculateDynamicTokenLimit(outcome, tlLast.config.pricing_config.target_usd_amount)
              = [ok |-> TRUE, value |-> tlLast.value]

\* A call under the config with target 20 is served the token count that
\* was computed for target 40 under the seeded config.
C37_StaleTargetServed ==
    /\ tlFresh
    /\ tlLast.how = "cached"
    /\ tlLast.config.pricing_config.target_usd_amount = 20
    /\ tlLast.value = calculateDynamicTokenLimit([online |-> "sonnet4", offline |-> "unused"], 40).value

\* ------------------------------------------------------------------------
\* Properties of the session selector
\* ------------------------------------------------------------------------

\* What a recomputation would select now.
SelectedNow ==
    calculateCurrentSession(candidates, order, FALSE, now).value

\* The candidate windows that are in the `active` / `current` state now.
ActiveIds == IdsInState(candidates, "active", now)
CurrentIds == IdsInState(candidates, "current", now)

\* C1 (as stated): two getCurrentSession calls less than CACHE_DURATION apart,
\* with no clearCache between them, that both return a window, return the
\* same window id.
C1_AnyTwoCallsWithinTtlAgree ==
    (/\ selPrev.src # "never"
     /\ selLast.t - selPrev.t < CACHE_DURATION
     /\ ~selLast.cleared
     /\ selPrev.id # "none"
     /\ selLast.id # "none")
    => selLast.id = selPrev.id

\* C1 (amended): a call made less than CACHE_DURATION after the call that
\* computed the cached window (no clearCache since) returns that window's id
\* from the memo, whatever the candidate list has become.
C1_CallWithinTtlOfComputationAgrees ==
    (/\ selFill.src = "computed"
     /\ selFill.id # "none"
     /\ selLast.t - selFill.t < CACHE_DURATION)
    => (selLast.id = selFill.id /\ (selLast # selFill => selLast.src = "cache"))

\* C1 witness: a later call served from the memo although a recomputation
\* would now select another window.
C1_Witness ==
    /\ selLast.src = "cache"
    /\ selLast.t > selFill.t
    /\ selFresh
    /\ SelectedNow.id # selLast.id

\* C2 (as stated): with an `active`-state and a `current`-state window both
\* in the candidate list, the selector returns the `active`-state one.
C2_ActiveStateBeatsCurrentState ==
    (/\ selFresh
     /\ selLast.src = "computed"
     /\ ActiveIds # {}
     /\ CurrentIds # {})
    => selLast.id \in ActiveIds

\* C2 (amended): with an `active`-state and a `current`-state window both in
\* the candidate list, both are tier-1 candidates and the one listed first
\* is returned: the `current`-state window under descending order, the
\* `active`-state window under ascending order.
C2_FirstListedOfActiveAndCurrent ==
    (/\ selFresh
     /\ selLast.src = "computed"
     /\ ActiveIds # {}
     /\ CurrentIds # {})
    => /\ order = "desc" => selLast.id \in CurrentIds
       /\ order = "asc" => selLast.id \in ActiveIds

\* C2 witness: a computation over a list holding both kinds, in ascending order.
C2_Witness ==
    /\ selFresh
    /\ selLast.src = "computed"
    /\ ActiveIds # {}
    /\ CurrentIds # {}
    /\ order = "asc"
    /\ selLast.id \in ActiveIds

\* C7: a call whose load throws returns none, also when the memo holds a
\* window whose TTL has passed.
C7_LoadFailureReturnsNone ==
    selLast.threw => (selLast.id = "none" /\ selLast.src = "failed")

\* C7 witness: the load threw while an expired window was still memoized.
C7_Witness ==
    /\ selLast.threw
    /\ selFresh
    /\ cachedSession # NoSession
    /\ now - cacheTimestamp >= CACHE_DURATION

\* C15: the first getCurrentSession call after clearCache() is not served
\* from the memo, however recently the memo was filled: it recomputes from the
\* window builder and, when the load succeeds, returns what the builder's
\* list selects now and stores it with the time of the call.
C15_CallAfterClearRecomputes ==
    (selFresh /\ selLast.cleared)
    => /\ selLast.src # "cache"
       /\ ~selLast.threw
            => /\ selLast.src = "computed"
               /\ selLast.id = SelectedNow.id
               /\ cachedSession = SelectedNow
               /\ cacheTimestamp = now

\* C15 witness: the memo was filled less than CACHE_DURATION before, it was
\* cleared, and the call after the clear returned another window than the
\* call before it.
C15_Witness ==
    /\ selFresh
    /\ selLast.cleared
    /\ selLast.src = "computed"
    /\ selPrev.src \in {"computed", "cache"}
    /\ selPrev.id # "none"
    /\ selLast.t - selPrev.t < CACHE_DURATION
    /\ selLast.id \notin {"none", selPrev.id}
    /\ cachedSession.id = selLast.id

\* C36 (as stated): a call made less than CACHE_DURATION after a call that
\* computed "no current window" (no clearCache between them) is served from
\* the memo and returns none.
C36_NoneIsMemoized ==
    (/\ selPrev.src = "computed"
     /\ selPrev.id = "none"
     /\ selLast.t - selPrev.t < CACHE_DURATION
     /\ ~selLast.cleared)
    => (selLast.src = "cache" /\ selLast.id = "none")

\* A call right after a computed none loads the builder's list again and
\* returns a window that has appeared in the meantime.
C36_NoneIsRecomputed ==
    /\ selFresh
    /\ selPrev.src = "computed"
    /\ selPrev.id = "none"
    /\ selLast.t - selPrev.t < CACHE_DURATION
    /\ ~selLast.cleared
    /\ selLast.src = "computed"
    /\ selLast.id # "none"

\* ------------------------------------------------------------------------
\* TeamService: actions
\* ------------------------------------------------------------------------
\* Time steps that bring a call to 1 ms before, to, and to 1 ms after the
\* expiry of a teammate entry, to 1 ms before the expiry of a team-info entry,
\* and a retry to the very expiry of a team-info entry.
TeamDeltas ==
    {1, TEAMMATE_DATA_CACHE_TTL - 1, TEAMMATE_DATA_CACHE_TTL + 1, TEAM_INFO_CACHE_TTL - 1,
     TEAM_INFO_CACHE_TTL - RETRY_DELAY}

TickTeam ==
    /\ Tick(TeamDeltas)
    /\ ResultTaken
    /\ UNCHANGED <<selVars, cfgVars, fnVars>>
    /\ UNCHANGED <<remoteMembers, remoteSessions, teamInfoCache, teammateSessionsCache,
                   stPc, stAttempt>>

\* Another member pushes or removes a window: the team's usage rows change.
PeerSync ==
    /\ \E r \in {x \in UsageRows : x.session_id = "P1"} :
          remoteSessions' = IF r \in remoteSessions THEN remoteSessions \ {r}
                            ELSE remoteSessions \cup {r}
    /\ ResultTaken
    /\ UNCHANGED <<now, ticks, selVars, cfgVars, fnVars>>
    /\ UNCHANGED <<remoteMembers, teamInfoCache, teammateSessionsCache, stPc, stAttempt>>

\* A teammate leaves the team or joins it again.
MembersChange ==
    /\ \E u \in {"u1"} :
          remoteMembers' = IF u \in remoteMembers THEN remoteMembers \ {u}
                           ELSE remoteMembers \cup {u}
    /\ ResultTaken
    /\ UNCHANGED <<now, ticks, selVars, cfgVars, fnVars>>
    /\ UNCHANGED <<remoteSessions, teamInfoCache, teammateSessionsCache, stPc, stAttempt>>

\* The time a cache entry has left at time t
TimeLeft(entry, t) == IF entry.present THEN entry.expiresAt - t ELSE 0

\* The outcome o names failures only of reads the attempt makes at time t: a
\* remote read is made when its cache entry is not valid, the local load when
\* the team information was obtained and the selector's cache is not valid.
OutcomeApplies(o, teamEntry, peerEntry, t) ==
    /\ o.fails \in {"team", "members"} => ~isCacheValid(teamEntry, t)
    /\ o.fails = "sessions" => ~isCacheValid(peerEntry, t)
    /\ o.loadThrows =>
          /\ o.fails \notin {"team", "members"}
          /\ getCurrentSession(cachedSession, cacheTimestamp, candidates, order, TRUE, t).src
                = "failed"

\* One attempt of getTeamStats at time t, number n of the call, starting from
\* the given cache entries; teamBefore / peerBefore are the entries as the
\* call found them.
StatsAttempt(n, t, teamEntry, peerEntry, teamBefore, peerBefore, o) ==
    /\ OutcomeApplies(o, teamEntry, peerEntry, t)
    /\ \E a \in {statsAttempt(teamEntry, peerEntry, cachedSession, cacheTimestamp,
                          remoteMembers, remoteSessions, candidates, order, o, t)} :
           LET step == withRetryStep(n, a.threw)
           IN  /\ teamInfoCache' = a.teamEntry
               /\ teammateSessionsCache' = a.peerEntry
               /\ cachedSession' = a.cached
               /\ cacheTimestamp' = a.stamp
               /\ stAttempt' = n
               /\ stInfo' = [teamHad |-> teamBefore.present, teamLeft |-> TimeLeft(teamBefore, t),
                             teamSrc |-> a.teamSrc,
                             peerHad |-> peerBefore.present, peerLeft |-> TimeLeft(peerBefore, t),
                             peerSrc |-> a.peerSrc,
                             localThrew |-> a.localThrew]
               /\ stPc' = IF step = "retry" THEN "retry" ELSE "done"
               /\ stResult' = IF step = "success"
                              THEN [returned |-> TRUE, ok |-> TRUE, stats |-> a.stats]
                              ELSE IF step = "fail"
                              THEN [returned |-> TRUE, ok |-> FALSE, stats |-> NoStats]
                              ELSE NoResult

\* getTeamStats is called: cleanupExpiredCache, getSupabaseClient, then the
\* first attempt.
GetTeamStats(o) ==
    /\ stPc \in {"idle", "done"}
    /\ IF o.fails = "client"
       THEN /\ teamInfoCache' = cleanupExpiredCache(teamInfoCache, NoTeamEntry, now)
            /\ teammateSessionsCache' = cleanupExpiredCache(teammateSessionsCache, NoPeerEntry, now)
            /\ stPc' = "done"
            /\ stAttempt' = 0
            /\ stResult' = [returned |-> TRUE, ok |-> FALSE, stats |-> NoStats]
            /\ stInfo' = [NoInfo EXCEPT !.teamSrc = "noclient", !.peerSrc = "noclient"]
            /\ UNCHANGED <<cachedSession, cacheTimestamp>>
       ELSE StatsAttempt(1, now,
                         cleanupExpiredCache(teamInfoCache, NoTeamEntry, now),
                         cleanupExpiredCache(teammateSessionsCache, NoPeerEntry, now),
                         teamInfoCache, teammateSessionsCache, o)
    /\ UNCHANGED <<now, ticks, cfgVars, fnVars>>
    /\ UNCHANGED <<candidates, order, selLast, selPrev, selFill, selCleared, selFresh>>
    /\ UNCHANGED <<remoteMembers, remoteSessions>>

\* withRetry: after the retry delay the operation runs again.
RetryTeamStats(o) ==
    /\ stPc = "retry"
    /\ ticks < MaxTicks
    /\ ticks' = ticks + 1
    /\ now' = now + RETRY_DELAY
    /\ StatsAttempt(stAttempt + 1, now + RETRY_DELAY, teamInfoCache, teammateSessionsCache,
                    teamInfoCache, teammateSessionsCache, o)
    /\ UNCHANGED <<cfgVars, fnVars>>
    /\ UNCHANGED <<candidates, order, selLast, selPrev, selFill, selCleared, selFresh>>
    /\ UNCHANGED <<remoteMembers, remoteSessions>>

\* TeamService.clearTeamCache(TeamId, Me)
ClearTeamCache ==
    /\ teamInfoCache' = NoTeamEntry
    /\ teammateSessionsCache' = NoPeerEntry
    /\ ResultTaken
    /\ UNCHANGED <<now, ticks, selVars, cfgVars, fnVars>>
    /\ UNCHANGED <<remoteMembers, remoteSessions, stPc, stAttempt>>

NextTeam ==
    \/ TickTeam
    \/ PeerSync
    \/ MembersChange
    \/ \E o \in CallOutcomes : GetTeamStats(o)
    \/ \E o \in AttemptOutcomes : RetryTeamStats(o)
    \/ ClearTeamCache

InitTeamSpec ==
    /\ Init
    /\ candidates \in {{}, {r \in RawWindows : r.id = "B"}}
    /\ order = "desc"

SpecTeam == InitTeamSpec /\ [][NextTeam]_vars

\* ------------------------------------------------------------------------
\* TeamService: properties
\* ------------------------------------------------------------------------
\* An attempt has just read the remote store and failed.
RemoteReadFailed == stInfo.teamSrc = "failed" \/ stInfo.peerSrc = "failed"

\* The entries of member_stats that describe the current actor
ActorStats(stats) ==
    {i \in 1..Len(stats.member_stats) : stats.member_stats[i].user_id = Me}

\* C3: in every successful getTeamStats result total_tokens is the sum of the
\* members' current_tokens, total_cost the sum of their current_cost, and
\* active_members_count the number of members whose is_active is true.
C3_TotalsAreSumsOverMemberStats ==
    (stResult.returned /\ stResult.ok) =>
        LET ms == stResult.stats.member_stats
        IN  /\ stResult.stats.total_tokens = SumNums([i \in 1..Len(ms) |-> ms[i].current_tokens])
            /\ stResult.stats.total_cost = SumNums([i \in 1..Len(ms) |-> ms[i].current_cost])
            /\ stResult.stats.active_members_count
                 = Cardinality({i \in 1..Len(ms) : ms[i].is_active})

\* A successful result over two members who both have usage, one of them with
\* an inactive window beside the active one.
C3_Witness ==
    /\ stResult.returned /\ stResult.ok
    /\ Len(stResult.stats.member_stats) = 2
    /\ \A i \in 1..2 : stResult.stats.member_stats[i].current_tokens > 0
    /\ stResult.stats.active_members_count = 2
    /\ stResult.stats.total_tokens = 11
    /\ stResult.stats.total_cost = 7

\* C5: an attempt serves the team-info entry, and the teammate entry, from the
\* cache exactly when the entry exists and the time of the check is before
\* its expiresAt; otherwise it reads the remote store.
C5_ServedExactlyWhileNotExpired ==
    /\ stInfo.teamSrc \in {"cache", "remote", "failed"} =>
          (stInfo.teamSrc = "cache" <=> (stInfo.teamHad /\ stInfo.teamLeft > 0))
    /\ stInfo.peerSrc \in {"cache", "remote", "failed"} =>
          (stInfo.peerSrc = "cache" <=> (stInfo.peerHad /\ stInfo.peerLeft > 0))

\* A retried attempt, which no cleanupExpiredCache precedes, checks the
\* team-info entry at the very millisecond it expires and reads the remote
\* store again.
C5_Witness ==
    /\ stAttempt > 1
    /\ stInfo.teamHad
    /\ stInfo.teamLeft = 0
    /\ stInfo.teamSrc = "remote"

\* C6: getTeamStats returns a failure exactly when the client is unavailable
\* or all MAX_RETRIES attempts failed on a remote read, and then carries no
\* statistics; an attempt whose remote reads succeed returns a success even
\* if the local load threw, with no current session and zero, inactive
\* statistics for the actor.
C6_RemoteFailureFailsLocalFailureDoesNot ==
    /\ (stResult.returned /\ ~stResult.ok) =>
          /\ stResult.stats = NoStats
          /\ \/ stInfo.teamSrc = "noclient"
             \/ stAttempt = MAX_RETRIES /\ RemoteReadFailed
    /\ (RemoteReadFailed /\ stAttempt = MAX_RETRIES) => (stResult.returned /\ ~stResult.ok)
    /\ (RemoteReadFailed /\ stAttempt < MAX_RETRIES) => (~stResult.returned /\ stPc = "retry")
    /\ (stInfo.teamSrc \in {"cache", "remote"} /\ stInfo.peerSrc \in {"cache", "remote"}) =>
          /\ stResult.returned /\ stResult.ok
          /\ stInfo.localThrew =>
                /\ stResult.stats.current_session = NoSession
                /\ \A i \in ActorStats(stResult.stats) :
                      /\ stResult.stats.member_stats[i].current_tokens = 0
                      /\ stResult.stats.member_stats[i].current_cost = 0
                      /\ ~stResult.stats.member_stats[i].is_active

\* The third attempt fails on the usage_sessions read, after a local load that
\* threw as well, and the call returns a failure.
C6_Witness ==
    /\ stResult.returned /\ ~stResult.ok
    /\ stAttempt = MAX_RETRIES
    /\ stInfo.peerSrc = "failed"
    /\ stInfo.localThrew
    /\ candidates # {}

\* ------------------------------------------------------------------------
\* The activity classification of a window, applied on its own
\* ------------------------------------------------------------------------

\* The services stay as constructed while a function is applied on its own.
ServicesIdle == UNCHANGED <<now, ticks, selVars, cfgVars, teamVars>>

\* Instants around the boundaries of a window that starts at StartTime: an
\* hour before it, its start, its end, the 30 minutes after its end, and the
\* hour after a last activity.
ClassifyStarts == {StartTime, StartTime + 1 * HOUR}
ClassifyLastActivity == {0, 1 * MINUTE, 4 * HOUR + 15 * MINUTE, SESSION_DURATION - 1}
ClassifyNows ==
    { StartTime + d : d \in
        { 0 - 1 * HOUR, 0 - 1, 0, 1, 1 * HOUR - 1, 1 * HOUR, 1 * HOUR + 1 * MINUTE,
          SESSION_DURATION - 1, SESSION_DURATION, SESSION_DURATION + 1,
          SESSION_DURATION + 15 * MINUTE - 1, SESSION_DURATION + 15 * MINUTE,
          SESSION_DURATION + 30 * MINUTE - 1, SESSION_DURATION + 30 * MINUTE,
          SESSION_DURATION + 1 * HOUR - 1, SESSION_DURATION + 1 * HOUR,
          SESSION_DURATION + 90 * MINUTE } }

ClassifyInputs ==
    { [fn |-> "createBlock", startTime |-> st, endTime |-> st + SESSION_DURATION,
       actualEndTime |-> st + la, now |-> t] :
        st \in ClassifyStarts, la \in ClassifyLastActivity, t \in ClassifyNows }

\* createBlock at fnArgs.now for a window with one or more entries: the state
\* calculateSessionState gives it and the isActive flag derived from it.
ClassifyWindow ==
    /\ fnArgs.fn = "createBlock"
    /\ ~fnResult.done
    /\ fnResult' =
         [done |-> TRUE,
          state |-> calculateSessionState(fnArgs.startTime, fnArgs.endTime,
                                          fnArgs.actualEndTime, fnArgs.now),
          isActive |-> createBlock([id |-> "W", startTime |-> fnArgs.startTime,
                                    endTime |-> fnArgs.endTime,
                                    actualEndTime |-> fnArgs.actualEndTime,
                                    isGap |-> FALSE, tokens |-> <<1, 0, 0, 0>>,
                                    costUSD |-> 1], fnArgs.now).isActive]
    /\ UNCHANGED fnArgs
    /\ ServicesIdle

InitClassify ==
    /\ InitServices
    /\ candidates = {}
    /\ order = "desc"
    /\ fnArgs \in ClassifyInputs
    /\ fnResult = NotApplied

NextClassify == ClassifyWindow

SpecClassify == InitClassify /\ [][NextClassify]_vars

\* C12 (as stated): the classification yields exactly one of current / active
\* / expired; it is current whenever startTime <= now < endTime; it is active
\* only when now is past endTime and both gaps (to the last activity, to the
\* end of the window) are below their bounds; and isActive holds exactly when
\* the state is current or active.
C12_ClassificationAsStated ==
    fnResult.done =>
        /\ fnResult.state \in {"current", "active", "expired"}
        /\ (fnArgs.startTime <= fnArgs.now /\ fnArgs.now < fnArgs.endTime)
               => fnResult.state = "current"
        /\ fnResult.state = "active"
               => /\ fnArgs.now >= fnArgs.endTime
                  /\ fnArgs.now - fnArgs.actualEndTime < 60 * 60 * 1000
                  /\ fnArgs.now - fnArgs.endTime < 30 * 60 * 1000
        /\ fnResult.isActive <=> fnResult.state \in {"current", "active"}

\* The same classification for windows that have begun (startTime <= now).
C12_ClassificationOfBegunWindows ==
    (fnResult.done /\ fnArgs.startTime <= fnArgs.now) =>
        /\ fnResult.state \in {"current", "active", "expired"}
        /\ fnArgs.now < fnArgs.endTime => fnResult.state = "current"
        /\ fnResult.state = "active"
               <=> /\ fnArgs.now >= fnArgs.endTime
                   /\ fnArgs.now - fnArgs.actualEndTime < 60 * 60 * 1000
                   /\ fnArgs.now - fnArgs.endTime < 30 * 60 * 1000
        /\ fnResult.isActive <=> fnResult.state \in {"current", "active"}

\* ------------------------------------------------------------------------
\* The tiered selection, applied on its own to a candidate list
\* ------------------------------------------------------------------------

\* The recorded activity the candidate lists are built from: the windows of
\* RawWindows and one older window P.
TierWindows ==
    RawWindows \cup
    { [id |-> "P", startTime |-> StartTime - 30 * HOUR, actualEndTime |-> StartTime - 29 * HOUR,
       endTime |-> StartTime - 25 * HOUR, isGap |-> FALSE, tokens |-> <<1, 0, 0, 0>>, costUSD |-> 1] }

\* Instants of selection: A active and B current with recent activity; A
\* expired; B current with its last activity beyond the grace bound; every
\* window expired; and an instant inside the gap between O and A, the clock
\* being behind the recorded activity of A and B.
TierTimes ==
    {StartTime, StartTime + 25 * MINUTE, StartTime + 3 * HOUR, StartTime + 5 * HOUR,
     StartTime - 5 * HOUR - 30 * MINUTE}

TierInputs ==
    { [fn |-> "selectStableSession", raws |-> rs, order |-> o, now |-> t] :
        rs \in SUBSET TierWindows, o \in {"desc", "asc"}, t \in TierTimes }

\* calculateCurrentSession on a load that succeeds: the candidate list in the
\* configured order, none when it is empty, else selectStableSession.
SelectFromList ==
    /\ fnArgs.fn = "selectStableSession"
    /\ ~fnResult.done
    /\ fnResult' =
         [done |-> TRUE,
          id |-> calculateCurrentSession(fnArgs.raws, fnArgs.order, FALSE, fnArgs.now).value.id]
    /\ UNCHANGED fnArgs
    /\ ServicesIdle

InitTiers ==
    /\ InitServices
    /\ candidates = {}
    /\ order = "desc"
    /\ fnArgs \in TierInputs
    /\ fnResult = NotApplied

NextTiers == SelectFromList

SpecTiers == InitTiers /\ [][NextTiers]_vars

\* The candidate list of the application, as a set of blocks.
ListedBlocks == {createBlock(r, fnArgs.now) : r \in WithGaps(fnArgs.raws)}

\* Tier 1: active windows whose last activity is inside the grace bound.
Tier1 ==
    {b \in ListedBlocks : b.isActive /\ (fnArgs.now - b.actualEndTime) < ACTIVITY_GRACE}

\* Tier 2: windows whose [startTime, endTime) contains now.
Tier2 ==
    {b \in ListedBlocks : fnArgs.now >= b.startTime /\ fnArgs.now < b.endTime}

\* Tier 3: every non-gap window.
Tier3 == {b \in ListedBlocks : ~b.isGap}

WinningTier == IF Tier1 # {} THEN Tier1 ELSE Tier2

\* The ids of the windows of S with the latest / the earliest startTime.
LatestIn(S) == {b.id : b \in {c \in S : \A d \in S : d.startTime <= c.startTime}}
EarliestIn(S) == {b.id : b \in {c \in S : \A d \in S : d.startTime >= c.startTime}}

\* C13 (as stated): when tier 1 or tier 2 has a qualifying window, the
\* selector returns the qualifying window of the winning tier with the latest
\* startTime, whatever the order of the candidate list.
C13_LatestOfWinningTierInEveryOrder ==
    (fnResult.done /\ fnArgs.fn = "selectStableSession" /\ WinningTier # {})
    => fnResult.id \in LatestIn(WinningTier)

\* What the selector does within the winning tier: it returns the qualifying
\* window listed first, the latest under descending order and the earliest
\* under ascending order.
C13_FirstListedOfWinningTier ==
    (fnResult.done /\ fnArgs.fn = "selectStableSession" /\ WinningTier # {})
    => /\ fnArgs.order = "desc" => fnResult.id \in LatestIn(WinningTier)
       /\ fnArgs.order = "asc" => fnResult.id \in EarliestIn(WinningTier)

\* C14: when no window qualifies for tier 1 or tier 2, the selector returns
\* the non-gap window with the latest startTime, expired or not, in either
\* list order; it returns none when the candidate list is empty.
C14_LatestNonGapElseNone ==
    (fnResult.done /\ fnArgs.fn = "selectStableSession" /\ Tier1 = {} /\ Tier2 = {})
    => /\ Tier3 # {} => fnResult.id \in LatestIn(Tier3)
       /\ ListedBlocks = {} => fnResult.id = "none"

\* C14 witness: every candidate is expired, the list holds several non-gap
\* windows and a gap in ascending order, and the latest one is returned.
C14_Witness ==
    /\ fnResult.done
    /\ fnArgs.fn = "selectStableSession"
    /\ Tier1 = {} /\ Tier2 = {}
    /\ Cardinality(Tier3) >= 3
    /\ Tier3 # ListedBlocks
    /\ fnArgs.order = "asc"
    /\ fnResult.id \in LatestIn(Tier3)
    /\ \A b \in Tier3 : ~b.isActive

\* The empty candidate list gives none.
C14_EmptyListGivesNone ==
    /\ fnResult.done
    /\ fnArgs.fn = "selectStableSession"
    /\ ListedBlocks = {}
    /\ fnResult.id = "none"

\* The block of the candidate list that the selection returned.
SelectedBlocks == {b \in ListedBlocks : b.id = fnResult.id}

StatsWindows ==
    { [id |-> "L1", startTime |-> StartTime - 1 * MINUTE, actualEndTime |-> StartTime - 1000,
       endTime |-> StartTime - 1 * MINUTE + SESSION_DURATION, isGap |-> FALSE,
       tokens |-> <<400, 90, 9, 1>>, costUSD |-> 5],
      [id |-> "L0", startTime |-> StartTime, actualEndTime |-> NoTime,
       endTime |-> StartTime + SESSION_DURATION, isGap |-> FALSE,
       tokens |-> <<1, 0, 0, 0>>, costUSD |-> 1],
      [id |-> "O", startTime |-> StartTime - 12 * HOUR, actualEndTime |-> StartTime - 11 * HOUR,
       endTime |-> StartTime - 7 * HOUR, isGap |-> FALSE,
       tokens |-> <<1000, 1, 0, 0>>, costUSD |-> 7] }

\* Rows of the team's usage_sessions table: two of u1, one of u2 without an
\* update timestamp, one of the current user.
StatsRows ==
    { [user_id |-> "u1", session_id |-> "P1", is_active |-> TRUE,
       token_counts |-> <<1, 0, 0, 0>>, cost_usd |-> 4,
       start_time |-> StartTime - 1 * HOUR, updated_at |-> StartTime - 2 * MINUTE],
      [user_id |-> "u1", session_id |-> "P0", is_active |-> FALSE,
       token_counts |-> <<300, 100, 50, 50>>, cost_usd |-> 1,
       start_time |-> StartTime - 8 * HOUR, updated_at |-> StartTime - 6 * HOUR],
      [user_id |-> "u2", session_id |-> "Q", is_active |-> FALSE,
       token_counts |-> <<500, 250, 200, 50>>, cost_usd |-> 2,
       start_time |-> StartTime - 3 * HOUR, updated_at |-> NoTime],
      [user_id |-> "me", session_id |-> "M", is_active |-> TRUE,
       token_counts |-> <<9, 9, 9, 9>>, cost_usd |-> 9,
       start_time |-> StartTime - 1 * MINUTE, updated_at |-> StartTime - 1000] }

\* burn_rate_thresholds of the resolved system configuration: the seeded
\* values and values an administrator has set.
StatsThresholds ==
    { [high |-> 1000, moderate |-> 500], [high |-> 2000, moderate |-> 1000] }

StatsInputs ==
    { [fn |-> "getTeamStats", members |-> ms, local |-> w, rows |-> rs,
       burn_rate_thresholds |-> th, now |-> StartTime] :
        ms \in {{"me"}, {"me", "u1"}, {"me", "u1", "u2"}},
        w \in {NoSession} \cup {createBlock(r, StartTime) : r \in StatsWindows},
        rs \in SUBSET StatsRows,
        th \in StatsThresholds }

\* Steps 3 to 7 of getTeamStats on a team-info entry, a local window and the
\* rows of the remote store: the peer query, the member statistics, the
\* totals and the burn rate.
ComputeTeamStats ==
    /\ fnArgs.fn = "getTeamStats"
    /\ ~fnResult.done
    /\ fnResult' =
         [done |-> TRUE,
          stats |-> teamStats(fnArgs.members, Me, fnArgs.local,
                              queryTeammateSessions(fnArgs.rows, Me), fnArgs.now)]
    /\ UNCHANGED fnArgs
    /\ ServicesIdle

InitStats ==
    /\ InitServices
    /\ candidates = {}
    /\ order = "desc"
    /\ fnArgs \in StatsInputs
    /\ fnResult = NotApplied

NextStats == ComputeTeamStats

SpecStats == InitStats /\ [][NextStats]_vars

\* The statistics computed for a member.
StatOf(member) ==
    LET i == CHOOSE j \in 1..Len(fnResult.stats.member_stats) :
                 fnResult.stats.member_stats[j].user_id = member
    IN  fnResult.stats.member_stats[i]

StatsComputed == fnResult.done /\ fnArgs.fn = "getTeamStats"

\* C16: the current user's statistics come from the local window alone: the
\* sum of its four counters, its cost, its isActive flag and its last
\* activity; they are zero / inactive / absent without a local window,
\* whatever rows the remote store holds for that user.
C16_ActorStatsFromLocalWindowOnly ==
    (StatsComputed /\ Me \in fnArgs.members)
    => IF fnArgs.local = NoSession
       THEN /\ StatOf(Me).current_tokens = 0
            /\ StatOf(Me).current_cost = 0
            /\ ~StatOf(Me).is_active
            /\ StatOf(Me).last_activity = NoTime
       ELSE /\ StatOf(Me).current_tokens =
                   fnArgs.local.tokens[1] + fnArgs.local.tokens[2]
                   + fnArgs.local.tokens[3] + fnArgs.local.tokens[4]
            /\ StatOf(Me).current_cost = fnArgs.local.costUSD
            /\ StatOf(Me).is_active = fnArgs.local.isActive
            /\ StatOf(Me).last_activity \in {fnArgs.local.actualEndTime, fnArgs.local.startTime}
            /\ fnArgs.local.actualEndTime # NoTime
                   => StatOf(Me).last_activity = fnArgs.local.actualEndTime

\* C16 witness: the remote store holds a row of the current user and the
\* local window differs from it; the statistics are those of the local window.
C16_Witness ==
    /\ StatsComputed
    /\ fnArgs.local # NoSession
    /\ \E r \in fnArgs.rows : r.user_id = Me /\ getTotalTokens(r.token_counts) # StatOf(Me).current_tokens
    /\ StatOf(Me).current_tokens = 500
    /\ StatOf(Me).is_active

\* C16, the other case: no local window although the remote store holds an
\* active row of the current user.
C16_NoLocalWindow ==
    /\ StatsComputed
    /\ fnArgs.local = NoSession
    /\ \E r \in fnArgs.rows : r.user_id = Me /\ r.is_active
    /\ StatOf(Me).current_tokens = 0
    /\ ~StatOf(Me).is_active

\* The rows of the remote store that belong to a member.
RowsOf(member) == {r \in fnArgs.rows : r.user_id = member}

\* Sums and maxima over a set of rows.
RECURSIVE RowTokens(_)
RowTokens(rows) ==
    IF rows = {} THEN 0
    ELSE LET r == CHOOSE x \in rows : TRUE
         IN  r.token_counts[1] + r.token_counts[2] + r.token_counts[3] + r.token_counts[4]
             + RowTokens(rows \ {r})

RECURSIVE RowCost(_)
RowCost(rows) ==
    IF rows = {} THEN 0
    ELSE LET r == CHOOSE x \in rows : TRUE IN r.cost_usd + RowCost(rows \ {r})

RowUpdate(r) == IF r.updated_at # NoTime THEN r.updated_at ELSE r.start_time

\* C17: for every member other than the current user, current_tokens is the
\* sum of the four counters over the peer rows of that member, current_cost
\* the sum of their costs, is_active holds exactly when one of them is marked
\* active, and last_activity is the latest of their update timestamps (the
\* start time standing in for a missing one), absent without rows.
C17_TeammateStatsAreSumsOverTheirRows ==
    StatsComputed =>
        \A m \in fnArgs.members \ {Me} :
            /\ StatOf(m).current_tokens = RowTokens(RowsOf(m))
            /\ StatOf(m).current_cost = RowCost(RowsOf(m))
            /\ StatOf(m).is_active <=> \E r \in RowsOf(m) : r.is_active
            /\ IF RowsOf(m) = {}
               THEN StatOf(m).last_activity = NoTime
               ELSE /\ \E r \in RowsOf(m) : StatOf(m).last_activity = RowUpdate(r)
                    /\ \A r \in RowsOf(m) : StatOf(m).last_activity >= RowUpdate(r)

\* C17 witness: a teammate with an active and an inactive row, next to a
\* teammate without rows and rows of the current user.
C17_Witness ==
    /\ StatsComputed
    /\ fnArgs.members = {"me", "u1", "u2"}
    /\ Cardinality(RowsOf("u1")) = 2
    /\ RowsOf("u2") = {}
    /\ RowsOf(Me) # {}
    /\ StatOf("u1").current_tokens = 501
    /\ StatOf("u1").is_active
    /\ StatOf("u1").last_activity = StartTime - 2 * MINUTE
    /\ StatOf("u2").last_activity = NoTime

\* C18: getTeamStats produces a burn rate only when a local window exists
\* and is active, null otherwise; when it produces one, tokens_per_minute is
\* total_tokens divided by the minutes elapsed since the window's startTime
\* (as a fraction: total_tokens * 60000 over the elapsed milliseconds).
C18_BurnRateOnlyForActiveLocalWindow ==
    StatsComputed =>
        /\ (fnArgs.local = NoSession \/ ~fnArgs.local.isActive)
               => fnResult.stats.burn_rate = NoBurnRate
        /\ fnResult.stats.burn_rate.present
               => /\ fnArgs.local # NoSession
                  /\ fnArgs.local.isActive
                  /\ fnResult.stats.burn_rate.tokens_per_minute.num
                         = fnResult.stats.total_tokens * 60000
                  /\ fnResult.stats.burn_rate.tokens_per_minute.den
                         = fnArgs.now - fnArgs.local.startTime

\* C18 witness: an active local window and teammates' rows; the rate is the
\* team's 1001 tokens over the one minute since the window started.
C18_Witness ==
    /\ StatsComputed
    /\ fnArgs.local # NoSession
    /\ fnArgs.local.isActive
    /\ fnResult.stats.burn_rate.present
    /\ fnResult.stats.total_tokens = 1001
    /\ StatOf(Me).current_tokens = 500
    /\ fnResult.stats.burn_rate.tokens_per_minute = [num |-> 1001 * 60000, den |-> 60000]

\* C18, the null cases: an expired local window with tokens, and an active
\* window that starts at this very instant.
C18_ExpiredWindowNoBurnRate ==
    /\ StatsComputed
    /\ fnArgs.local # NoSession
    /\ ~fnArgs.local.isActive
    /\ fnResult.stats.total_tokens > 0
    /\ ~fnResult.stats.burn_rate.present

C18_NoElapsedTimeNoBurnRate ==
    /\ StatsComputed
    /\ fnArgs.local # NoSession
    /\ fnArgs.local.isActive
    /\ fnArgs.now = fnArgs.local.startTime
    /\ ~fnResult.stats.burn_rate.present

\* The band of a rate against a high and a moderate threshold.
Band(rate, thresholds) ==
    IF Exceeds(rate, thresholds.high) THEN "HIGH"
    ELSE IF Exceeds(rate, thresholds.moderate) THEN "MODERATE"
    ELSE "NORMAL"

\* C19 (as stated): the indicator of the statistics that getTeamStats hands to
\* the live display is the band of tokens_per_minute against the high and
\* moderate thresholds of the resolved system configuration.
C19_IndicatorFromConfiguredThresholds ==
    (StatsComputed /\ fnResult.stats.burn_rate.present)
    => fnResult.stats.burn_rate.indicator
           = Band(fnResult.stats.burn_rate.tokens_per_minute, fnArgs.burn_rate_thresholds)

\* What getTeamStats does: the band against 1000 and 500 tokens per minute,
\* whatever thresholds the system configuration holds.
C19_IndicatorFromFixedNumbers ==
    (StatsComputed /\ fnResult.stats.burn_rate.present)
    => fnResult.stats.burn_rate.indicator
           = Band(fnResult.stats.burn_rate.tokens_per_minute, [high |-> 1000, moderate |-> 500])

\* ------------------------------------------------------------------------
\* Schedule conflicts (TeamAggregator.detectTimeConflicts)
\* ------------------------------------------------------------------------

\* TeamAggregator.formatTimeSlot: "HH:00-HH:00" of the hour and the next one,
\* as the pair of the two hours.
formatTimeSlot(hour) == <<hour, (hour + 1) % 24>>

\* TeamAggregator.calculateConflictSeverity
calculateConflictSeverity(memberCount) ==
    IF memberCount >= 4 THEN "high"
    ELSE IF memberCount >= 3 THEN "medium"
    ELSE "low"

\* severityOrder of the sort comparator
severityOrder(severity) ==
    IF severity = "high" THEN 3 ELSE IF severity = "medium" THEN 2 ELSE 1

\* timeSlotMembers.get(timeSlot).push(name), creating the entry when the slot
\* is new; the Map keeps its keys in insertion order.
PushSlotMember(slots, timeSlot, name) ==
    IF \E i \in 1..Len(slots) : slots[i].timeSlot = timeSlot
    THEN [i \in 1..Len(slots) |->
             IF slots[i].timeSlot = timeSlot
             THEN [timeSlot |-> timeSlot, memberNames |-> Append(slots[i].memberNames, name)]
             ELSE slots[i]]
    ELSE Append(slots, [timeSlot |-> timeSlot, memberNames |-> <<name>>])

\* The inner loop over one member's preferred hours.
RECURSIVE PushHours(_, _, _)
PushHours(slots, hours, name) ==
    IF hours = <<>> THEN slots
    ELSE PushHours(PushSlotMember(slots, formatTimeSlot(Head(hours)), name), Tail(hours), name)

\* The outer loop over the members.
RECURSIVE PushMembers(_, _)
PushMembers(slots, members) ==
    IF members = <<>> THEN slots
    ELSE PushMembers(PushHours(slots, Head(members).preferred_hours, Head(members).user_name),
                     Tail(members))

\* Array.prototype.sort by severityOrder descending (stable).
RECURSIVE InsertBySeverity(_, _)
InsertBySeverity(c, sorted) ==
    IF sorted = <<>> THEN <<c>>
    ELSE IF severityOrder(Head(sorted).severity) >= severityOrder(c.severity)
         THEN <<Head(sorted)>> \o InsertBySeverity(c, Tail(sorted))
         ELSE <<c>> \o sorted

RECURSIVE SortBySeverity(_)
SortBySeverity(conflicts) ==
    IF conflicts = <<>> THEN <<>>
    ELSE InsertBySeverity(Head(conflicts), SortBySeverity(Tail(conflicts)))

\* TeamAggregator.detectTimeConflicts
detectTimeConflicts(members) ==
    LET timeSlotMembers == PushMembers(<<>>, members)
        Shared(slot) == Len(slot.memberNames) > 1
        shared == SelectSeq(timeSlotMembers, Shared)
        conflicts == [i \in 1..Len(shared) |->
                         [timeSlot |-> shared[i].timeSlot,
                          conflictingMembers |-> shared[i].memberNames,
                          severity |-> calculateConflictSeverity(Len(shared[i].memberNames))]]
    IN  SortBySeverity(conflicts)

\* settings.preferred_hours of a member: an array of hours 0..23, absent or
\* empty, in any order, an hour possibly listed twice.
HourLists == {<<>>, <<9>>, <<10>>, <<9, 10>>, <<9, 11>>, <<23, 9>>, <<9, 9>>}
ConflictHours == {9, 10, 11, 23}
MemberNames == <<"A", "B", "C", "D">>

ConflictInputs ==
    { [fn |-> "detectTimeConflicts",
       members |-> [i \in 1..4 |-> [user_name |-> MemberNames[i], preferred_hours |-> hs[i]]]] :
        hs \in [1..4 -> HourLists] }

DetectConflicts ==
    /\ fnArgs.fn = "detectTimeConflicts"
    /\ ~fnResult.done
    /\ fnResult' = [done |-> TRUE, conflicts |-> detectTimeConflicts(fnArgs.members)]
    /\ UNCHANGED fnArgs
    /\ ServicesIdle

InitConflicts ==
    /\ InitServices
    /\ candidates = {}
    /\ order = "desc"
    /\ fnArgs \in ConflictInputs
    /\ fnResult = NotApplied

NextConflicts == DetectConflicts

SpecConflicts == InitConflicts /\ [][NextConflicts]_vars

ConflictsComputed == fnResult.done /\ fnArgs.fn = "detectTimeConflicts"

\* The names of the members that list an hour among their preferred hours.
ListedBy(hour) ==
    {fnArgs.members[i].user_name : i \in
        {j \in 1..Len(fnArgs.members) :
            \E k \in 1..Len(fnArgs.members[j].preferred_hours) :
                fnArgs.members[j].preferred_hours[k] = hour}}

SeverityFor(n) == IF n >= 4 THEN "high" ELSE IF n = 3 THEN "medium" ELSE "low"

NoHourTwice ==
    \A i \in 1..Len(fnArgs.members) :
        \A k, l \in 1..Len(fnArgs.members[i].preferred_hours) :
            fnArgs.members[i].preferred_hours[k] = fnArgs.members[i].preferred_hours[l] => k = l

ConflictsAsStated ==
    /\ \A hour \in ConflictHours :
           (\E i \in 1..Len(fnResult.conflicts) :
                fnResult.conflicts[i].timeSlot = formatTimeSlot(hour))
           <=> Cardinality(ListedBy(hour)) >= 2
    /\ \A i \in 1..Len(fnResult.conflicts) :
           \E hour \in ConflictHours :
               /\ fnResult.conflicts[i].timeSlot = formatTimeSlot(hour)
               /\ {fnResult.conflicts[i].conflictingMembers[k] :
                       k \in 1..Len(fnResult.conflicts[i].conflictingMembers)} = ListedBy(hour)
               /\ fnResult.conflicts[i].severity = SeverityFor(Cardinality(ListedBy(hour)))
    /\ \A i, j \in 1..Len(fnResult.conflicts) :
           i < j => severityOrder(fnResult.conflicts[i].severity)
                        >= severityOrder(fnResult.conflicts[j].severity)

\* C20 (as stated): an hour's slot is reported as a conflict exactly when at
\* least 2 members list that hour; its members are those who list it; its
\* severity is high for 4 or more of them, medium for 3, low for 2; the
\* conflicts are returned by severity, descending.
C20_ConflictIffTwoMembersListTheHour ==
    ConflictsComputed => ConflictsAsStated

\* The same, for members none of whom lists an hour twice.
C20_ConflictsOfDuplicateFreeLists ==
    (ConflictsComputed /\ NoHourTwice) => ConflictsAsStated

\* The example of preferred hours {9, 10} and {9, 11}: exactly slot 9, both
\* members, severity low.
C20_Example ==
    /\ ConflictsComputed
    /\ fnArgs.members[1].preferred_hours = <<9, 10>>
    /\ fnArgs.members[2].preferred_hours = <<9, 11>>
    /\ fnArgs.members[3].preferred_hours = <<>>
    /\ fnArgs.members[4].preferred_hours = <<>>
    /\ fnResult.conflicts =
           << [timeSlot |-> <<9, 10>>, conflictingMembers |-> <<"A", "B">>, severity |-> "low"] >>

\* C39 (as stated): every reported conflict has at least two distinct
\* members, and none of them is listed twice.
C39_ConflictsHaveDistinctMembers ==
    ConflictsComputed =>
        \A i \in 1..Len(fnResult.conflicts) :
            LET names == fnResult.conflicts[i].conflictingMembers
            IN  /\ Cardinality({names[k] : k \in 1..Len(names)}) >= 2
                /\ \A k, l \in 1..Len(names) : names[k] = names[l] => k = l

\* A member alone in a slot, listing its hour twice, is reported as a
\* conflict with itself.
C39_ConflictWithOneself ==
    /\ ConflictsComputed
    /\ \E i \in 1..Len(fnResult.conflicts) :
          fnResult.conflicts[i].conflictingMembers = <<"A", "A">>

\* ------------------------------------------------------------------------
\* Advisories (TeamAggregator.generateAdvancedSuggestions)
\* ------------------------------------------------------------------------

\* DEFAULT_AGGREGATION_CONFIG.highUsageThreshold, 0.4, as a fraction.
HighUsageThreshold == [num |-> 4, den |-> 10]

\* Variant: the last four advisories are kept instead of the first four.
generateAdvancedSuggestions_LastFour(stats, memberStats, timeConflicts, tokenLimit, projected, t) ==
    LET IsHighUsage(m) ==
            m.current_tokens * HighUsageThreshold.den > stats.total_tokens * HighUsageThreshold.num
        highUsageMembers == SelectSeq(memberStats, IsHighUsage)
        remainingMs == stats.current_session.endTime - t
        s1 == IF stats.burn_rate.present /\ stats.burn_rate.indicator = "HIGH"
              THEN <<"burn-rate HIGH">>
              ELSE IF stats.burn_rate.present /\ stats.burn_rate.indicator = "MODERATE"
                   THEN <<"burn-rate MODERATE">> ELSE <<>>
        s2 == IF stats.active_members_count > 1 THEN <<"members active">> ELSE <<>>
        s3 == IF Len(highUsageMembers) > 0 THEN <<"high usage member">> ELSE <<>>
        s4 == IF Len(timeConflicts) > 0 THEN <<"peak slot">> ELSE <<>>
        s5 == IF stats.current_session # NoSession
                 /\ remainingMs < 60 * MINUTE /\ remainingMs > 0
              THEN <<"window ending">> ELSE <<>>
        s6 == IF tokenLimit # 0 /\ stats.total_tokens * 10 > tokenLimit * 8
              THEN IF stats.total_tokens > tokenLimit
                   THEN <<"limit exceeded">> ELSE <<"near limit">>
              ELSE <<>>
        s7 == IF stats.burn_rate.present /\ stats.current_session # NoSession
                 /\ projected # 0 /\ tokenLimit # 0
                 /\ projected * 100 > 120 * tokenLimit
              THEN <<"projected over limit">> ELSE <<>>
        suggestions == s1 \o s2 \o s3 \o s4 \o s5 \o s6 \o s7
    IN  IF Len(suggestions) <= 4 THEN suggestions
        ELSE SubSeq(suggestions, Len(suggestions) - 3, Len(suggestions))

\* TeamAggregator.generateAdvancedSuggestions: the advisories pushed, each
\* named by its kind, cut to the first four. tokenLimit 0 stands for an
\* undefined config.tokenLimit, projected 0 for a null projectBlockUsage.
generateAdvancedSuggestions(stats, memberStats, timeConflicts, tokenLimit, projected, t) ==
    LET IsHighUsage(m) ==
            m.current_tokens * HighUsageThreshold.den > stats.total_tokens * HighUsageThreshold.num
        highUsageMembers == SelectSeq(memberStats, IsHighUsage)
        remainingMs == stats.current_session.endTime - t
        s1 == IF stats.burn_rate.present /\ stats.burn_rate.indicator = "HIGH"
              THEN <<"burn-rate HIGH">>
              ELSE IF stats.burn_rate.present /\ stats.burn_rate.indicator = "MODERATE"
                   THEN <<"burn-rate MODERATE">> ELSE <<>>
        s2 == IF stats.active_members_count > 1 THEN <<"members active">> ELSE <<>>
        s3 == IF Len(highUsageMembers) > 0 THEN <<"high usage member">> ELSE <<>>
        s4 == IF Len(timeConflicts) > 0 THEN <<"peak slot">> ELSE <<>>
        s5 == IF stats.current_session # NoSession
                 /\ remainingMs < 60 * MINUTE /\ remainingMs > 0
              THEN <<"window ending">> ELSE <<>>
        s6 == IF tokenLimit # 0 /\ stats.total_tokens * 10 > tokenLimit * 8
              THEN IF stats.total_tokens > tokenLimit
                   THEN <<"limit exceeded">> ELSE <<"near limit">>
              ELSE <<>>
        s7 == IF stats.burn_rate.present /\ stats.current_session # NoSession
                 /\ projected # 0 /\ tokenLimit # 0
                 /\ projected * 100 > 120 * tokenLimit
              THEN <<"projected over limit">> ELSE <<>>
        suggestions == s1 \o s2 \o s3 \o s4 \o s5 \o s6 \o s7
    IN  SubSeq(suggestions, 1, IF Len(suggestions) < 4 THEN Len(suggestions) ELSE 4)

\* Statistics handed to generateAdvancedSuggestions: the burn rate (null, or
\* with one of the three indicators), the number of active members, the
\* members' tokens, the local window (none, or ending in 0, 59 or 60 minutes).
AdviceBurnRates ==
    {NoBurnRate} \cup
    { [present |-> TRUE, tokens_per_minute |-> [num |-> 1, den |-> 1],
       cost_per_hour |-> [num |-> 1, den |-> 1], indicator |-> i] :
        i \in {"NORMAL", "MODERATE", "HIGH"} }

AdviceSessions ==
    {NoSession} \cup
    { [id |-> "L", startTime |-> StartTime + r - SESSION_DURATION, endTime |-> StartTime + r,
       actualEndTime |-> StartTime - 1000, isActive |-> TRUE, isGap |-> FALSE,
       tokens |-> <<1, 0, 0, 0>>, costUSD |-> 1] : r \in {0, 59 * MINUTE, 60 * MINUTE} }

AdviceMemberStats ==
    { <<>>,
      << [user_id |-> "me", current_tokens |-> 400], [user_id |-> "u1", current_tokens |-> 600] >>,
      << [user_id |-> "me", current_tokens |-> 400], [user_id |-> "u1", current_tokens |-> 300],
         [user_id |-> "u2", current_tokens |-> 300] >> }

AdviceConflicts ==
    { <<>>,
      << [timeSlot |-> <<9, 10>>, conflictingMembers |-> <<"A", "B">>, severity |-> "low"] >> }

\* config.tokenLimit: undefined, below the total, within 80 % of it, beyond.
AdviceTokenLimits == {0, 900, 1200, 1250}

AdviceInputs ==
    { [fn |-> "generateAdvancedSuggestions",
       stats |-> [burn_rate |-> br, active_members_count |-> n,
                  total_tokens |-> SumNums([i \in 1..Len(ms) |-> ms[i].current_tokens]),
                  current_session |-> cs],
       memberStats |-> ms, timeConflicts |-> tc, tokenLimit |-> tl, projected |-> pr,
       now |-> StartTime] :
        br \in AdviceBurnRates, n \in {1, 2}, cs \in AdviceSessions,
        ms \in AdviceMemberStats, tc \in AdviceConflicts,
        tl \in AdviceTokenLimits, pr \in {0, 2000} }

GenerateSuggestions ==
    /\ fnArgs.fn = "generateAdvancedSuggestions"
    /\ ~fnResult.done
    /\ fnResult' =
         [done |-> TRUE,
          suggestions |-> generateAdvancedSuggestions(fnArgs.stats, fnArgs.memberStats,
                              fnArgs.timeConflicts, fnArgs.tokenLimit, fnArgs.projected,
                              fnArgs.now)]
    /\ UNCHANGED fnArgs
    /\ ServicesIdle

InitAdvice ==
    /\ InitServices
    /\ candidates = {}
    /\ order = "desc"
    /\ fnArgs \in AdviceInputs
    /\ fnResult = NotApplied

NextAdvice == GenerateSuggestions

SpecAdvice == InitAdvice /\ [][NextAdvice]_vars

AdviceComputed == fnResult.done /\ fnArgs.fn = "generateAdvancedSuggestions"

\* The priority of an advisory: burn-rate warning, multi-active-member
\* notice, dominant-member notice, top schedule conflict, window ending soon,
\* threshold notice, then the projection notice.
AdvicePriority(kind) ==
    CASE kind \in {"burn-rate HIGH", "burn-rate MODERATE"} -> 1
      [] kind = "members active" -> 2
      [] kind = "high usage member" -> 3
      [] kind = "peak slot" -> 4
      [] kind = "window ending" -> 5
      [] kind \in {"limit exceeded", "near limit"} -> 6
      [] kind = "projected over limit" -> 7

\* The priorities whose advisory is triggered by the arguments.
TriggeredPriorities ==
    {k \in 1..7 :
        CASE k = 1 -> fnArgs.stats.burn_rate.present
                      /\ fnArgs.stats.burn_rate.indicator \in {"HIGH", "MODERATE"}
          [] k = 2 -> fnArgs.stats.active_members_count >= 2
          [] k = 3 -> \E i \in 1..Len(fnArgs.memberStats) :
                          10 * fnArgs.memberStats[i].current_tokens > 4 * fnArgs.stats.total_tokens
          [] k = 4 -> fnArgs.timeConflicts # <<>>
          [] k = 5 -> /\ fnArgs.stats.current_session # NoSession
                      /\ fnArgs.stats.current_session.endTime > fnArgs.now
                      /\ fnArgs.stats.current_session.endTime - fnArgs.now < 60 * MINUTE
          [] k = 6 -> /\ fnArgs.tokenLimit > 0
                      /\ 10 * fnArgs.stats.total_tokens > 8 * fnArgs.tokenLimit
          [] k = 7 -> /\ fnArgs.stats.burn_rate.present
                      /\ fnArgs.stats.current_session # NoSession
                      /\ fnArgs.tokenLimit > 0
                      /\ fnArgs.projected * 100 > 120 * fnArgs.tokenLimit}

ShownPriorities ==
    {AdvicePriority(fnResult.suggestions[i]) : i \in 1..Len(fnResult.suggestions)}

\* C21: at most 4 advisories are returned, in priority order, each of them
\* triggered; a triggered advisory is left out only when 4 advisories of
\* higher priority are shown, so no advisory appears while a triggered one of
\* higher priority is omitted.
C21_AtMostFourHighestPriorityAdvisories ==
    AdviceComputed =>
        /\ Len(fnResult.suggestions) <= 4
        /\ \A i, j \in 1..Len(fnResult.suggestions) :
               i < j => AdvicePriority(fnResult.suggestions[i]) < AdvicePriority(fnResult.suggestions[j])
        /\ ShownPriorities \subseteq TriggeredPriorities
        /\ \A k \in TriggeredPriorities \ ShownPriorities :
               /\ Len(fnResult.suggestions) = 4
               /\ \A q \in ShownPriorities : q < k

\* C21 witness: all six advisories of the list are triggered and the four of
\* highest priority are returned; window-ending-soon and the threshold notice
\* are left out.
C21_Witness ==
    /\ AdviceComputed
    /\ {1, 2, 3, 4, 5, 6} \subseteq TriggeredPriorities
    /\ ShownPriorities = {1, 2, 3, 4}

\* C38 (as stated): whenever the team's total tokens exceed the configured
\* token limit, the returned advisories include the limit-exceeded notice.
C38_LimitExceededIsAlwaysShown ==
    (/\ AdviceComputed
     /\ fnArgs.tokenLimit > 0
     /\ fnArgs.stats.total_tokens > fnArgs.tokenLimit)
    => \E i \in 1..Len(fnResult.suggestions) : fnResult.suggestions[i] = "limit exceeded"

\* The total is over the limit and the four advisories returned are the
\* burn-rate warning, the active-member notice, the dominant-member notice
\* and the peak slot.
C38_LimitExceededCutOff ==
    /\ AdviceComputed
    /\ fnArgs.tokenLimit > 0
    /\ fnArgs.stats.total_tokens > fnArgs.tokenLimit
    /\ fnResult.suggestions =
          <<"burn-rate HIGH", "members active", "high usage member", "peak slot">>

\* ------------------------------------------------------------------------
\* The caches of TeamService by key (TeamService.clearTeamCache)
\* ------------------------------------------------------------------------

\* Teams and the current-user arguments a caller can pass; getTeamStats and
\* clearTeamCache take currentUserId as an optional argument.
TeamIds == {"T1", "T2"}
NoUserId == "undefined"
UserArgs == {Me, NoUserId}

\* `team-${teamId}`
teamInfoCacheKey(teamId) == <<"team", teamId>>

\* `teammates-${teamId}-${currentUserId || 'none'}`
teammatesCacheKey(teamId, currentUserId) ==
    <<"teammates", teamId, IF currentUserId = NoUserId THEN "none" ELSE currentUserId>>

TeamInfoKeys == {teamInfoCacheKey(g) : g \in TeamIds}
TeammatesKeys == {teammatesCacheKey(g, a) : g \in TeamIds, a \in UserArgs}

\* Variant: every entry of both caches is dropped (as clearAllCache does).
clearTeamCache_AllEntries(infoCache, peerCache, teamId, currentUserId) ==
    [teamInfoCache |-> [k \in DOMAIN infoCache |-> NoTeamEntry],
     teammateSessionsCache |-> [k \in DOMAIN peerCache |-> NoPeerEntry]]

\* TeamService.clearTeamCache: Map.delete of the two keys.
clearTeamCache(infoCache, peerCache, teamId, currentUserId) ==
    [teamInfoCache |->
         [k \in DOMAIN infoCache |->
             IF k = teamInfoCacheKey(teamId) THEN NoTeamEntry ELSE infoCache[k]],
     teammateSessionsCache |->
         [k \in DOMAIN peerCache |->
             IF k = teammatesCacheKey(teamId, currentUserId) THEN NoPeerEntry ELSE peerCache[k]]]

\* Entries that getTeamStats calls have left in the two caches.
KeyedTeamEntries == {NoTeamEntry, createCacheEntry({"me", "u1"}, TEAM_INFO_CACHE_TTL, StartTime)}
KeyedPeerEntries ==
    {NoPeerEntry,
     createCacheEntry(queryTeammateSessions(UsageRows, Me), TEAMMATE_DATA_CACHE_TTL, StartTime)}

KeyedInputs ==
    { [fn |-> "clearTeamCache", teamInfoCache |-> ic, teammateSessionsCache |-> pc,
       teamId |-> g, currentUserId |-> a, cachedSession |-> cs, cachedDynamicTokens |-> dt] :
        ic \in [TeamInfoKeys -> KeyedTeamEntries],
        pc \in [{k \in TeammatesKeys : k # teammatesCacheKey("T2", NoUserId)} -> KeyedPeerEntries],
        g \in TeamIds, a \in UserArgs,
        cs \in {NoSession} \cup {createBlock(r, StartTime) : r \in {w \in RawWindows : w.id = "B"}},
        dt \in {NullTokens, 1000000} }

\* The selector's memo and the dynamic-threshold cache when clearTeamCache is
\* called: empty, or filled by earlier calls.
InitKeyedCache ==
    /\ fnArgs \in KeyedInputs
    /\ fnResult = NotApplied
    /\ now = StartTime
    /\ ticks = 0
    /\ candidates = {}
    /\ order = "desc"
    /\ cachedSession = fnArgs.cachedSession
    /\ cacheTimestamp = IF fnArgs.cachedSession = NoSession THEN 0 ELSE StartTime
    /\ selLast = NoCall
    /\ selPrev = [t |-> 0, id |-> "none", src |-> "never"]
    /\ selFill = NoCall
    /\ selCleared = FALSE
    /\ selFresh = FALSE
    /\ dbConfig = "seeded"
    /\ cachedConfig = NoConfig
    /\ cacheExpiry = 0
    /\ cachedDynamicTokens = fnArgs.cachedDynamicTokens
    /\ dynamicTokensCacheExpiry =
           IF fnArgs.cachedDynamicTokens = NullTokens THEN 0
           ELSE StartTime + DYNAMIC_TOKENS_CACHE_TTL_MS
    /\ tlCalls = EmptyBag
    /\ tlLast = NoLimit
    /\ tlFill = NoFill
    /\ tlFresh = FALSE
    /\ InitTeam

ClearTeamCacheByKey ==
    /\ fnArgs.fn = "clearTeamCache"
    /\ ~fnResult.done
    /\ \E r \in {clearTeamCache(fnArgs.teamInfoCache, fnArgs.teammateSessionsCache,
                                fnArgs.teamId, fnArgs.currentUserId)} :
           fnResult' = [done |-> TRUE, teamInfoCache |-> r.teamInfoCache,
                        teammateSessionsCache |-> r.teammateSessionsCache]
    /\ UNCHANGED fnArgs
    /\ ServicesIdle

NextKeyedCache == ClearTeamCacheByKey

SpecKeyedCache == InitKeyedCache /\ [][NextKeyedCache]_vars

CacheCleared == fnResult.done /\ fnArgs.fn = "clearTeamCache"

\* The selector's memo and the dynamic-threshold cache are as before the call.
OtherCachesUntouched ==
    /\ cachedSession = fnArgs.cachedSession
    /\ cachedDynamicTokens = fnArgs.cachedDynamicTokens

RetryCounts == 0..3
RetryDelays == {10, RETRY_DELAY}

\* throws[i]: whether the i-th invocation of the operation throws.
RetryInputs ==
    { [fn |-> "withRetry", maxRetries |-> m, retryDelay |-> d, throws |-> th] :
        m \in RetryCounts, d \in RetryDelays, th \in [1..3 -> BOOLEAN] }

\* The call before its first iteration: the loop variable, what has happened
\* so far (invocations "ok" / "throw" and waits "wait"), the time waited, and
\* what the call has returned.
RetryStart ==
    [done |-> FALSE, pc |-> "loop", attempt |-> 1, events |-> <<>>, waited |-> 0,
     result |-> "none"]

InitRetry ==
    /\ InitServices
    /\ candidates = {}
    /\ order = "desc"
    /\ fnArgs \in RetryInputs
    /\ fnResult = RetryStart

\* Variant: the delay is also waited after the last failed attempt.
RetryInvoke_WaitsAfterLast ==
    /\ fnArgs.fn = "withRetry"
    /\ fnResult.pc = "loop"
    /\ fnResult.attempt <= fnArgs.maxRetries
    /\ fnResult' =
         IF ~fnArgs.throws[fnResult.attempt]
         THEN [fnResult EXCEPT !.done = TRUE, !.pc = "returned", !.result = "success",
                               !.events = Append(@, "ok")]
         ELSE [fnResult EXCEPT !.pc = "wait", !.events = Append(@, "throw")]
    /\ UNCHANGED fnArgs
    /\ ServicesIdle

\* One iteration of the for loop: the operation is awaited; its value is
\* returned as a success, or its throw is caught and, unless this was the last
\* attempt, the delay is awaited.
RetryInvoke ==
    /\ fnArgs.fn = "withRetry"
    /\ fnResult.pc = "loop"
    /\ fnResult.attempt <= fnArgs.maxRetries
    /\ fnResult' =
         IF ~fnArgs.throws[fnResult.attempt]
         THEN [fnResult EXCEPT !.done = TRUE, !.pc = "returned", !.result = "success",
                               !.events = Append(@, "ok")]
         ELSE IF fnResult.attempt < fnArgs.maxRetries
              THEN [fnResult EXCEPT !.pc = "wait", !.events = Append(@, "throw")]
              ELSE [fnResult EXCEPT !.attempt = @ + 1, !.events = Append(@, "throw")]
    /\ UNCHANGED fnArgs
    /\ ServicesIdle

\* The setTimeout of the catch block has fired; attempt++.
RetryDelayElapsed ==
    /\ fnArgs.fn = "withRetry"
    /\ fnResult.pc = "wait"
    /\ fnResult' = [fnResult EXCEPT !.pc = "loop", !.attempt = @ + 1,
                                    !.events = Append(@, "wait"),
                                    !.waited = @ + fnArgs.retryDelay]
    /\ UNCHANGED fnArgs
    /\ ServicesIdle

\* The loop is over without a success: Result.fail is returned.
RetryGiveUp ==
    /\ fnArgs.fn = "withRetry"
    /\ fnResult.pc = "loop"
    /\ fnResult.attempt > fnArgs.maxRetries
    /\ fnResult' = [fnResult EXCEPT !.done = TRUE, !.pc = "returned", !.result = "failure"]
    /\ UNCHANGED fnArgs
    /\ ServicesIdle

NextRetry ==
    \/ RetryInvoke
    \/ RetryDelayElapsed
    \/ RetryGiveUp

SpecRetry == InitRetry /\ [][NextRetry]_vars

\* The invocations of the operation so far, and the waits.
Invocations == SelectSeq(fnResult.events, LAMBDA e : e # "wait")
Waits == SelectSeq(fnResult.events, LAMBDA e : e = "wait")

\* C23: the operation is invoked at most maxRetries times; the call stops at
\* the first invocation that succeeds and returns a success; the fixed delay
\* is waited only between two invocations; after maxRetries failed
\* invocations the call returns a failure (it does not throw).
C23_BoundedRetryReturnsResult ==
    fnArgs.fn = "withRetry" =>
        /\ Len(Invocations) <= fnArgs.maxRetries
        /\ \A i \in 1..Len(fnResult.events) :
               /\ fnResult.events[i] = "ok" => i = Len(fnResult.events)
               /\ fnResult.events[i] = "wait"
                      => /\ i > 1 /\ fnResult.events[i - 1] = "throw"
                         /\ (fnResult.done => i < Len(fnResult.events))
        /\ fnResult.waited = Len(Waits) * fnArgs.retryDelay
        /\ fnResult.done =>
               /\ fnResult.result \in {"success", "failure"}
               /\ fnResult.result = "success"
                      <=> (fnResult.events # <<>> /\ fnResult.events[Len(fnResult.events)] = "ok")
               /\ fnResult.result = "failure"
                      => /\ Len(Invocations) = fnArgs.maxRetries
                         /\ \A i \in 1..Len(Invocations) : Invocations[i] = "throw"
               /\ Len(Waits) = IF Len(Invocations) = 0 THEN 0 ELSE Len(Invocations) - 1

\* C23 witness: three attempts, all failed, two waits of the delay between
\* them, and a failure returned.
C23_Witness ==
    /\ fnArgs.fn = "withRetry"
    /\ fnArgs.maxRetries = 3
    /\ fnResult.done
    /\ fnResult.result = "failure"
    /\ fnResult.events = <<"throw", "wait", "throw", "wait", "throw">>
    /\ fnResult.waited = 2 * fnArgs.retryDelay

\* The case of the repository's test: two failures, then a success at the
\* third attempt.
C23_SuccessAtThirdAttempt ==
    /\ fnArgs.fn = "withRetry"
    /\ fnResult.done
    /\ fnResult.result = "success"
    /\ fnResult.events = <<"throw", "wait", "throw", "wait", "ok">>

\* ---------------------------------------------------------------------------
\* The `team live` command and the live-monitoring loop
\* (commands/team.ts teamLiveCommand, enhanced-live-monitor.ts,
\* _team-live-rendering.ts startTeamLiveMonitoring).
\* ---------------------------------------------------------------------------

\* An optional number: undefined is the empty set NotGiven, a value v is {v}.
NotGiven == {}
Some(v) == {v}
ValueOf(opt) == CHOOSE v \in opt : TRUE

\* JavaScript truthiness of an optional number (NaN is not among the inputs).
Truthy(opt) == opt # NotGiven /\ opt # Some(0)

FALLBACK_TOKEN_LIMIT == 100000000
minRenderInterval == 1000
ERROR_RETRY_DELAY == 3000

\* String.prototype.trim on the user names of the inputs.
UserNames == {"", "  ", "alice"}
Trim(name) == IF name \in {"", "  "} THEN "" ELSE name

\* validateMonitorConfig: "ok" or the failed check.
validateMonitorConfig(config) ==
    IF Trim(config.userName) = "" THEN "userName"
    ELSE IF config.refreshInterval < 1000 THEN "refreshInterval"
    ELSE IF config.syncInterval < 5000 THEN "syncInterval"
    ELSE IF Truthy(config.tokenLimit) /\ ValueOf(config.tokenLimit) <= 0 THEN "tokenLimit"
    ELSE "ok"

\* systemConfig.getTokenLimit() as the callers use it: its value, or the
\* ClaudeMax fallback when it fails (systemLimit = NotGiven).
limitOrFallback(systemLimit) ==
    IF systemLimit # NotGiven THEN systemLimit ELSE Some(FALLBACK_TOKEN_LIMIT)

\* createRecommendedConfig, then the overrides of teamLiveCommand.run.
teamLiveConfig(args) ==
    [userName |-> args.userName,
     refreshInterval |-> args.refresh * 1000,
     syncInterval |-> args.syncInterval * 1000,
     tokenLimit |-> IF args.tokenLimit # NotGiven THEN args.tokenLimit
                    ELSE limitOrFallback(args.systemLimit)]

\* The object EnhancedTeamLiveMonitor.start hands to startTeamLiveMonitoring:
\* teamId, teamName, refreshInterval and currentUserId.
monitoringConfig(config) ==
    [refreshInterval |-> config.refreshInterval, tokenLimit |-> NotGiven]

\* The first lines of startTeamLiveMonitoring: the limit the display uses.
displayTokenLimit(config, systemLimit) ==
    IF ~Truthy(config.tokenLimit) THEN limitOrFallback(systemLimit)
    ELSE config.tokenLimit

LiveRefreshSeconds == {0, 1, 5}
LiveSyncSeconds == {30}
LiveUserLimits == {NotGiven, Some(0), Some(500000)}
LiveSystemLimits == {NotGiven, Some(2000000)}

\* The command line of `team live`, what systemConfig.getTokenLimit()
\* answers, and whether process.exitCode has been set by the time a signal
\* arrives.
LiveInputs ==
    { [fn |-> "team live", userName |-> "alice", refresh |-> r, syncInterval |-> s,
       tokenLimit |-> u, systemLimit |-> d, exitCodeSet |-> x] :
        r \in LiveRefreshSeconds, s \in LiveSyncSeconds, u \in LiveUserLimits,
        d \in LiveSystemLimits, x \in BOOLEAN }

\* The process before teamLiveCommand.run. pc is the await the process is
\* suspended at; since is Date.now() - lastRenderTime, saturating at
\* minRenderInterval; shown is what the terminal displays; cancelled records
\* that a signal has arrived (aborted is the AbortSignal's flag, which
\* cleanup() sets on every way out).
LiveStartState ==
    [done |-> FALSE, pc |-> "command", exitCode |-> -1, refreshInterval |-> 0,
     tokenLimit |-> NotGiven, aborted |-> FALSE, cancelled |-> FALSE, attempt |-> 0, shown |-> "none",
     since |-> minRenderInterval, failures |-> 0,
     waitAfterCancel |-> FALSE, attemptAfterCancel |-> FALSE]

InitLive ==
    /\ InitServices
    /\ candidates = {}
    /\ order = "desc"
    /\ fnArgs \in LiveInputs
    /\ fnResult = LiveStartState

LiveDelays == {"minWait", "errorWait", "refreshWait"}
LiveRunning == LiveDelays \cup {"fetch", "backoff"}

\* cleanup(): abort, restore the terminal, and process.exit(0) unless
\* process.exitCode is set; in that case the caller goes on (st is its state).
LiveCleanup(st) ==
    IF ~fnArgs.exitCodeSet
    THEN [st EXCEPT !.done = TRUE, !.aborted = TRUE, !.pc = "exited", !.exitCode = 0]
    ELSE [st EXCEPT !.aborted = TRUE]

\* A delayWithAbort has rejected: its Error is not named AbortError, so the
\* catch block writes it, its own delay rejects at once, and finally runs
\* cleanup(); the function returns.
LiveCatch(st) ==
    LET c == LiveCleanup([st EXCEPT !.shown = "aborted"])
    IN  IF c.pc = "exited" THEN c ELSE [c EXCEPT !.done = TRUE, !.pc = "stopped"]

\* await delayWithAbort(...) at pc w: pending, or rejected at once when the
\* signal is already aborted.
LiveDelay(st, w) ==
    IF st.aborted THEN LiveCatch(st) ELSE [st EXCEPT !.pc = w]

\* The while test and the body up to its first await.
LiveIteration(st) ==
    IF st.aborted
    THEN LET c == LiveCleanup(st)
         IN  IF c.pc = "exited" THEN c ELSE [c EXCEPT !.done = TRUE, !.pc = "stopped"]
    ELSE IF st.since < minRenderInterval THEN LiveDelay(st, "minWait")
    ELSE [st EXCEPT !.pc = "fetch", !.attempt = 1]

\* teamLiveCommand.run up to the first await of startTeamLiveMonitoring's
\* loop: the interval check, the configuration, its validation (process.exit(1)
\* on failure), EnhancedTeamLiveMonitor.start (started: the connection test
\* and the team lookup succeed; otherwise process.exit(1)), the token limit
\* of the display.
LiveCommand ==
    /\ fnArgs.fn = "team live"
    /\ fnResult.pc = "command"
    /\ \E config \in {teamLiveConfig(fnArgs)}, started \in BOOLEAN :
        fnResult' =
          IF \/ config.refreshInterval < 1000
             \/ validateMonitorConfig(config) # "ok"
             \/ ~started
          THEN [fnResult EXCEPT !.done = TRUE, !.pc = "exited", !.exitCode = 1]
          ELSE LiveIteration(
                 [fnResult EXCEPT
                    !.refreshInterval = monitoringConfig(config).refreshInterval,
                    !.tokenLimit = displayTokenLimit(monitoringConfig(config),
                                                     fnArgs.systemLimit)])
    /\ UNCHANGED fnArgs
    /\ ServicesIdle

\* Variant: a failed getTeamStats ends the loop.
LiveFetchAttempt_FailureEndsLoop ==
    /\ fnArgs.fn = "team live"
    /\ fnResult.pc = "fetch"
    /\ \E o \in {"ok", "throw", "client"} :
        /\ o = "client" => fnResult.attempt = 1
        /\ \E step \in {IF o = "client" THEN "fail"
                        ELSE withRetryStep(fnResult.attempt, o = "throw")} :
            fnResult' =
              IF step = "success"
              THEN LiveDelay([fnResult EXCEPT !.shown = "stats", !.since = 0], "refreshWait")
              ELSE IF step = "retry"
              THEN [fnResult EXCEPT !.pc = "backoff",
                                    !.waitAfterCancel = @ \/ fnResult.cancelled]
              ELSE LiveCatch([fnResult EXCEPT !.shown = "error", !.failures = 1])
    /\ UNCHANGED fnArgs
    /\ ServicesIdle

\* An attempt of getTeamStats answers (or getSupabaseClient fails before the
\* first one). Success: the statistics are rendered, lastRenderTime is set
\* and the refresh delay is awaited. A throw before the last attempt:
\* withRetry awaits its setTimeout, which takes no signal. Final failure:
\* renderErrorState writes the error and awaits its 3000 ms delay.
LiveFetchAttempt ==
    /\ fnArgs.fn = "team live"
    /\ fnResult.pc = "fetch"
    /\ \E o \in {"ok", "throw", "client"} :
        /\ o = "client" => fnResult.attempt = 1
        /\ \E step \in {IF o = "client" THEN "fail"
                        ELSE withRetryStep(fnResult.attempt, o = "throw")} :
            fnResult' =
              IF step = "success"
              THEN LiveDelay([fnResult EXCEPT !.shown = "stats", !.since = 0], "refreshWait")
              ELSE IF step = "retry"
              THEN [fnResult EXCEPT !.pc = "backoff",
                                    !.waitAfterCancel = @ \/ fnResult.cancelled]
              ELSE LiveDelay([fnResult EXCEPT !.shown = "error", !.failures = 1],
                             "errorWait")
    /\ UNCHANGED fnArgs
    /\ ServicesIdle

\* withRetry's setTimeout has run out its RETRY_DELAY: the next attempt.
LiveBackoffElapsed ==
    /\ fnArgs.fn = "team live"
    /\ fnResult.pc = "backoff"
    /\ fnResult' = [fnResult EXCEPT !.pc = "fetch", !.attempt = @ + 1,
                                    !.attemptAfterCancel = @ \/ fnResult.cancelled]
    /\ UNCHANGED fnArgs
    /\ ServicesIdle

\* The timer of a pending delayWithAbort fires: the loop goes round.
LiveDelayElapsed ==
    /\ fnArgs.fn = "team live"
    /\ fnResult.pc \in LiveDelays
    /\ \E waited \in {IF fnResult.pc = "minWait" THEN minRenderInterval - fnResult.since
                      ELSE IF fnResult.pc = "errorWait" THEN ERROR_RETRY_DELAY
                      ELSE fnResult.refreshInterval} :
        fnResult' = LiveIteration(
            [fnResult EXCEPT !.since = IF @ + waited >= minRenderInterval
                                       THEN minRenderInterval ELSE @ + waited])
    /\ UNCHANGED fnArgs
    /\ ServicesIdle

\* SIGINT or SIGTERM while the loop runs: cleanup(). If the process goes on,
\* a pending delayWithAbort rejects through its abort listener; a getTeamStats
\* call in flight is not affected.
LiveCancel ==
    /\ fnArgs.fn = "team live"
    /\ fnResult.pc \in LiveRunning
    /\ ~fnResult.aborted
    /\ \E c \in {LiveCleanup([fnResult EXCEPT !.cancelled = TRUE])} :
        fnResult' = IF c.pc \in LiveDelays THEN LiveCatch(c) ELSE c
    /\ UNCHANGED fnArgs
    /\ ServicesIdle

NextLive ==
    \/ LiveCommand
    \/ LiveFetchAttempt
    \/ LiveBackoffElapsed
    \/ LiveDelayElapsed
    \/ LiveCancel

SpecLive == InitLive /\ [][NextLive]_vars

\* Timers fire and remote calls answer; signals need not arrive.
LiveFairness ==
    /\ WF_vars(LiveFetchAttempt)
    /\ WF_vars(LiveBackoffElapsed)
    /\ WF_vars(LiveDelayElapsed)

SpecLiveFair == SpecLive /\ LiveFairness

LiveMonitoring == fnArgs.fn = "team live"

\* C24: a failed getTeamStats does not end the loop (the loop ends only after
\* cancellation was signalled); the failure is on the display while the loop
\* waits to retry; and from there, unless cancellation is signalled, the loop
\* comes to another getTeamStats attempt.
C24_FailedFetchIsShownAndRetried ==
    /\ [](LiveMonitoring /\ fnResult.pc \in {"stopped", "exited"}
            => fnResult.cancelled \/ fnResult.exitCode = 1)
    /\ [](LiveMonitoring /\ fnResult.pc = "errorWait" => fnResult.shown = "error")
    /\ [](LiveMonitoring /\ fnResult.failures > 0 /\ ~fnResult.cancelled
            => fnResult.pc \in LiveRunning)
    /\ ((LiveMonitoring /\ fnResult.pc = "errorWait")
            ~> (fnResult.cancelled \/ fnResult.pc = "fetch"))

\* C24 witness: a getTeamStats has failed, the error was displayed, and the
\* loop is in a later getTeamStats attempt, with no cancellation.
C24_Witness ==
    /\ LiveMonitoring
    /\ fnResult.failures > 0
    /\ fnResult.shown = "error"
    /\ fnResult.pc = "fetch"
    /\ ~fnResult.cancelled

C25_LoopDelaysAborted ==
    LiveMonitoring /\ fnResult.cancelled => fnResult.pc \notin LiveDelays

\* With process.exitCode unset, cancellation ends the process at once.
C25_ExitWhenExitCodeUnset ==
    LiveMonitoring /\ fnResult.cancelled /\ ~fnArgs.exitCodeSet
        => fnResult.pc = "exited" /\ fnResult.exitCode = 0

\* C30 (as stated): a limit the user gave to `team live` is the limit the
\* display uses.
C30_UserLimitIsDisplayLimit ==
    LiveMonitoring /\ fnResult.pc \in LiveRunning /\ Truthy(fnArgs.tokenLimit)
        => fnResult.tokenLimit = fnArgs.tokenLimit

\* What the display uses instead: the limit startTeamLiveMonitoring resolves
\* itself, whatever the user gave.
C30_DisplayUsesResolvedLimit ==
    LiveMonitoring /\ fnResult.pc \in LiveRunning
        => fnResult.tokenLimit = limitOrFallback(fnArgs.systemLimit)

\* ---------------------------------------------------------------------------
\* TeamSyncBridge: start / stop and the sync timer (team-sync-bridge.ts).
\* ---------------------------------------------------------------------------

MaxTimers == 3
MaxSyncs == 3
MaxStarting == 2
NoTimer == 0

BridgeIntervals == {5000, 30000}

BridgeInputs == { [fn |-> "TeamSyncBridge", syncInterval |-> i] : i \in BridgeIntervals }

\* A bridge after its constructor. timers are the interval timers alive in
\* the event loop, syncTimer the one the bridge holds; starting counts the
\* start() calls awaiting their initial performSync; syncs counts the
\* performSync calls made; last is the last call and what it did.
BridgeNew ==
    [done |-> FALSE, isRunning |-> FALSE, syncTimer |-> NoTimer, timers |-> {},
     nextTimer |-> 1, starting |-> 0, syncs |-> 0, last |-> "new",
     stoppedDuringStart |-> FALSE]

InitBridge ==
    /\ InitServices
    /\ candidates = {}
    /\ order = "desc"
    /\ fnArgs \in BridgeInputs
    /\ fnResult = BridgeNew

\* getSyncStatus().isRunning
getSyncStatus_isRunning(bridge) == bridge.isRunning

\* start() up to its await: nothing when already running; otherwise
\* isRunning = true and the initial performSync is begun.
BridgeStart ==
    /\ fnArgs.fn = "TeamSyncBridge"
    /\ fnResult.starting < MaxStarting
    /\ fnResult.syncs < MaxSyncs
    /\ fnResult' =
         IF fnResult.isRunning
         THEN [fnResult EXCEPT !.last = "start: already running"]
         ELSE [fnResult EXCEPT !.isRunning = TRUE, !.starting = @ + 1,
                               !.syncs = @ + 1, !.last = "start"]
    /\ UNCHANGED fnArgs
    /\ ServicesIdle

\* The initial performSync of a start() has answered (a failure is only
\* logged): setInterval, the timer is stored in syncTimer, start() returns.
BridgeStartResume ==
    /\ fnArgs.fn = "TeamSyncBridge"
    /\ fnResult.starting > 0
    /\ fnResult.nextTimer <= MaxTimers
    /\ fnResult' = [fnResult EXCEPT !.starting = @ - 1,
                                    !.timers = @ \cup {fnResult.nextTimer},
                                    !.syncTimer = fnResult.nextTimer,
                                    !.nextTimer = @ + 1,
                                    !.last = "start returned"]
    /\ UNCHANGED fnArgs
    /\ ServicesIdle

\* stop(), also through Symbol.dispose: nothing when not running; otherwise
\* isRunning = false and the timer held in syncTimer, if any, is cleared.
BridgeStop ==
    /\ fnArgs.fn = "TeamSyncBridge"
    /\ fnResult' =
         IF ~fnResult.isRunning
         THEN [fnResult EXCEPT !.last = "stop: not running"]
         ELSE [fnResult EXCEPT !.isRunning = FALSE,
                               !.timers = @ \ {fnResult.syncTimer},
                               !.syncTimer = NoTimer,
                               !.last = "stop",
                               !.stoppedDuringStart = @ \/ fnResult.starting > 0]
    /\ UNCHANGED fnArgs
    /\ ServicesIdle

\* An interval timer fires: its callback returns when the bridge is not
\* running, and performs a sync otherwise.
BridgeTimerFires ==
    /\ fnArgs.fn = "TeamSyncBridge"
    /\ fnResult.syncs < MaxSyncs
    /\ \E id \in fnResult.timers :
        fnResult' =
          IF ~fnResult.isRunning
          THEN [fnResult EXCEPT !.last = "timer: not running"]
          ELSE [fnResult EXCEPT !.syncs = @ + 1, !.last = "timer: sync"]
    /\ UNCHANGED fnArgs
    /\ ServicesIdle

NextBridge ==
    \/ BridgeStart
    \/ BridgeStartResume
    \/ BridgeStop
    \/ BridgeTimerFires

SpecBridge == InitBridge /\ [][NextBridge]_vars

IsBridge == fnArgs.fn = "TeamSyncBridge"

\* C28 (as stated): a bridge never has more than one timer; a bridge that is
\* not running has none; after a start() has returned, with no stop() since,
\* the bridge is running.
C28_StartStopAsStated ==
    IsBridge =>
        /\ Cardinality(fnResult.timers) <= 1
        /\ ~getSyncStatus_isRunning(fnResult) => fnResult.timers = {}
        /\ fnResult.last = "start returned" => getSyncStatus_isRunning(fnResult)
        /\ fnResult.last = "stop" => ~getSyncStatus_isRunning(fnResult)

\* What holds as long as no stop() has arrived while a start() was awaiting
\* its initial sync.
C28_StartStopWhenNotInterleaved ==
    IsBridge /\ ~fnResult.stoppedDuringStart =>
        /\ Cardinality(fnResult.timers) <= 1
        /\ ~getSyncStatus_isRunning(fnResult) => fnResult.timers = {}
        /\ fnResult.last \in {"start", "start returned", "start: already running"}
               => getSyncStatus_isRunning(fnResult)
        /\ fnResult.last \in {"stop", "stop: not running"}
               => ~getSyncStatus_isRunning(fnResult)

\* Two timers alive at once, both syncing.
C28_TwoTimers ==
    IsBridge /\ fnResult.isRunning /\ Cardinality(fnResult.timers) = 2

\* C34 (as stated): whatever the interleaving of start() and stop(), at most
\* one interval timer exists, and none is left once the bridge is stopped and
\* no start() is pending.
C34_AtMostOneTimerAndNoneWhenStopped ==
    IsBridge =>
        /\ Cardinality(fnResult.timers) <= 1
        /\ (~fnResult.isRunning /\ fnResult.starting = 0) => fnResult.timers = {}

\* A timer left on a stopped bridge with no start() pending, after a stop()
\* that found the bridge not running.
C34_TimerSurvivesStop ==
    /\ IsBridge
    /\ ~fnResult.isRunning
    /\ fnResult.starting = 0
    /\ fnResult.last = "stop: not running"
    /\ fnResult.timers # {}

\* ---------------------------------------------------------------------------
\* TeamSyncBridge: pushes of the active window and their failure counts
\* (performSync, syncSessionBlock).
\* ---------------------------------------------------------------------------

\* `if (failCount >= 3)`
MAX_FAILED_SYNCS == 3
MaxPending == 2

\* The ids of the windows that can be active locally; none when
\* getActiveBlock() returns null.
PushIds == {"W1", "W2"}
NoActiveBlock == "none"

\* failedSyncs.get(sessionId) || 0: an id without an entry counts 0.
NoFailures == [id \in PushIds |-> 0]

PushInputs == { [fn |-> "performSync", syncInterval |-> i] : i \in BridgeIntervals }

\* A started bridge: pending holds the syncSessionBlock calls awaiting
\* syncUsageSession, each with the failCount it read; storeUp is whether the
\* remote store accepts writes; last is what the last step of a cycle did.
PushStart ==
    [done |-> FALSE, isRunning |-> TRUE, timerAlive |-> TRUE,
     failedSyncs |-> NoFailures, syncedSessionIds |-> {}, lastSyncedSessionId |-> NoActiveBlock,
     lastSyncTime |-> 0, pending |-> EmptyBag, storeUp |-> TRUE, active |-> "W1",
     last |-> [id |-> NoActiveBlock, failCount |-> 0, outcome |-> "new", contacted |-> FALSE]]

InitPush ==
    /\ InitServices
    /\ candidates = {}
    /\ order = "desc"
    /\ fnArgs \in PushInputs
    /\ fnResult = PushStart

\* Variant: the guard reads `failCount > 3`.
syncSessionBlockCheck_OneMore(syncedSessionIds, failedSyncs, block) ==
    IF block.id \in syncedSessionIds /\ ~block.isActive
    THEN [how |-> "already synced", failCount |-> 0]
    ELSE LET failCount == failedSyncs[block.id]
         IN  IF failCount > MAX_FAILED_SYNCS
             THEN [how |-> "max retries", failCount |-> failCount]
             ELSE [how |-> "push", failCount |-> failCount]

\* syncSessionBlock up to its await (lines 185-199): it returns at once for a
\* synced block that is no longer active and for an id that has failed
\* MAX_FAILED_SYNCS times, and calls syncUsageSession otherwise.
syncSessionBlockCheck(syncedSessionIds, failedSyncs, block) ==
    IF block.id \in syncedSessionIds /\ ~block.isActive
    THEN [how |-> "already synced", failCount |-> 0]
    ELSE LET failCount == failedSyncs[block.id]
         IN  IF failCount >= MAX_FAILED_SYNCS
             THEN [how |-> "max retries", failCount |-> failCount]
             ELSE [how |-> "push", failCount |-> failCount]

\* syncSessionBlock after its await (lines 207-222): the sync state once
\* syncUsageSession has answered the call.
syncSessionBlockSettle(state, call, ok) ==
    IF ok
    THEN [state EXCEPT !.syncedSessionIds = @ \cup {call.id},
                       !.failedSyncs[call.id] = 0,
                       !.lastSyncedSessionId = call.id]
    ELSE [state EXCEPT !.failedSyncs[call.id] = call.failCount + 1]

\* The timer fires (or syncNow is called): performSync up to the await of
\* syncUsageSession, or to its end when nothing is pushed. An exception of
\* getActiveBlock is caught and leaves lastSyncTime alone.
PerformSync(loadThrows) ==
    /\ fnArgs.fn = "performSync"
    /\ fnResult.isRunning
    /\ BagCardinality(fnResult.pending) < MaxPending
    /\ fnResult' =
         IF loadThrows
         THEN [fnResult EXCEPT !.last = [id |-> NoActiveBlock, failCount |-> 0,
                                         outcome |-> "threw", contacted |-> FALSE]]
         ELSE IF fnResult.active = NoActiveBlock
         THEN [fnResult EXCEPT !.lastSyncTime = now,
                               !.last = [id |-> NoActiveBlock, failCount |-> 0,
                                         outcome |-> "no active block", contacted |-> FALSE]]
         ELSE LET block == [id |-> fnResult.active, isActive |-> TRUE]
                  d == syncSessionBlockCheck(fnResult.syncedSessionIds, fnResult.failedSyncs, block)
              IN  IF d.how = "push"
                  THEN [fnResult EXCEPT
                            !.pending = @ (+) SetToBag({[id |-> block.id, failCount |-> d.failCount]}),
                            !.last = [id |-> block.id, failCount |-> d.failCount,
                                      outcome |-> "pushing", contacted |-> TRUE]]
                  ELSE [fnResult EXCEPT
                            !.lastSyncTime = now,
                            !.last = [id |-> block.id, failCount |-> d.failCount,
                                      outcome |-> d.how, contacted |-> FALSE]]
    /\ UNCHANGED fnArgs
    /\ ServicesIdle

\* syncUsageSession answers a pending call: a Result, a success exactly when
\* the store accepts writes; syncSessionBlock settles and performSync ends.
PushAnswered ==
    /\ fnArgs.fn = "performSync"
    /\ \E call \in BagToSet(fnResult.pending) :
         LET ok == fnResult.storeUp
             settled == syncSessionBlockSettle(fnResult, call, ok)
         IN  fnResult' =
               [settled EXCEPT !.pending = @ (-) SetToBag({call}),
                               !.lastSyncTime = now,
                               !.last = [id |-> call.id, failCount |-> call.failCount,
                                         outcome |-> IF ok THEN "pushed" ELSE "failed",
                                         contacted |-> TRUE]]
    /\ UNCHANGED fnArgs
    /\ ServicesIdle

\* The remote store starts or stops accepting writes.
StoreChanges ==
    /\ fnArgs.fn = "performSync"
    /\ fnResult' = [fnResult EXCEPT !.storeUp = ~@,
                                    !.last = [@ EXCEPT !.outcome = "store changed"]]
    /\ UNCHANGED fnArgs
    /\ ServicesIdle

\* Another window becomes the active one locally, or none is.
ActiveBlockChanges ==
    /\ fnArgs.fn = "performSync"
    /\ \E id \in (PushIds \cup {NoActiveBlock}) \ {fnResult.active} :
         fnResult' = [fnResult EXCEPT !.active = id,
                                      !.last = [@ EXCEPT !.outcome = "window changed"]]
    /\ UNCHANGED fnArgs
    /\ ServicesIdle

NextPush ==
    \/ \E loadThrows \in BOOLEAN : PerformSync(loadThrows)
    \/ PushAnswered
    \/ StoreChanges
    \/ ActiveBlockChanges

SpecPush == InitPush /\ [][NextPush]_vars

\* The interval timer keeps firing and the store answers every call; the
\* store and the local activity change as they please.
PushFairness ==
    /\ WF_vars(PerformSync(FALSE))
    /\ WF_vars(PushAnswered)

SpecPushFair == SpecPush /\ PushFairness

IsPush == fnArgs.fn = "performSync"

\* C32: no id's failure count exceeds 3; a syncSessionBlock call for an id
\* whose count is 3 fails without contacting the store; a successful push
\* removes the id's count; a failed one records one more than the count it
\* read; and the bridge stays running with its timer alive throughout.
C32_AtMostThreeFailuresPerWindow ==
    [][ IsPush =>
          /\ \A id \in PushIds : fnResult'.failedSyncs[id] <= MAX_FAILED_SYNCS
          /\ fnResult'.isRunning /\ fnResult'.timerAlive
          /\ (/\ fnResult'.last.outcome \in {"pushing", "max retries"}
              /\ fnResult.active # NoActiveBlock
              /\ fnResult.failedSyncs[fnResult.active] >= MAX_FAILED_SYNCS)
                => /\ fnResult'.last.outcome = "max retries"
                   /\ ~fnResult'.last.contacted
                   /\ fnResult'.pending = fnResult.pending
          /\ fnResult'.last.outcome = "pushed"
                => fnResult'.failedSyncs[fnResult'.last.id] = 0
          /\ fnResult'.last.outcome = "failed"
                => fnResult'.failedSyncs[fnResult'.last.id] = fnResult'.last.failCount + 1
      ]_vars

\* C32 witness: the active window has failed 3 times and the cycle just made
\* skipped it without contacting the store, which accepts writes again.
C32_Witness ==
    /\ IsPush
    /\ fnResult.active = "W1"
    /\ fnResult.failedSyncs["W1"] = MAX_FAILED_SYNCS
    /\ fnResult.last.outcome = "max retries"
    /\ ~fnResult.last.contacted
    /\ fnResult.pending = EmptyBag
    /\ fnResult.storeUp

\* A push that succeeds after two failures removes the count.
C32_SuccessRemovesCount ==
    /\ IsPush
    /\ fnResult.last.outcome = "pushed"
    /\ fnResult.last.failCount = 2
    /\ fnResult.failedSyncs[fnResult.last.id] = 0

\* C33 (as stated): if from some time on the store accepts writes and W1
\* stays the active window, W1 is pushed successfully again and again.
C33_RecoveredStoreIsSyncedAgain ==
    (<>[](IsPush /\ fnResult.storeUp /\ fnResult.active = "W1"))
        => []<>(fnResult.last.outcome = "pushed" /\ fnResult.last.id = "W1")

\* What happens instead once W1 has failed 3 times: no later cycle pushes it.
C33_AbandonedForGood ==
    [][ (IsPush /\ fnResult.failedSyncs["W1"] = MAX_FAILED_SYNCS
            /\ \A call \in BagToSet(fnResult.pending) : call.id # "W1")
          => /\ fnResult'.failedSyncs["W1"] = MAX_FAILED_SYNCS
             /\ ~(fnResult'.last.outcome = "pushed" /\ fnResult'.last.id = "W1") ]_vars

\* ---------------------------------------------------------------------------
\* Pushing a window to the remote store and reading it back
\* (TeamService.syncUsageSession, database/schema.sql usage_sessions,
\* TeamService.getTeamStats).
\* ---------------------------------------------------------------------------

\* Costs of this section are counted in 10^-5 dollars. cost_usd is
\* DECIMAL(10,4): PostgreSQL rounds the value to four decimals (half away
\* from zero) when it stores it.
COST_SCALE_STEP == 10
storeDecimal4(cost) == ((cost + COST_SCALE_STEP \div 2) \div COST_SCALE_STEP) * COST_SCALE_STEP

SyncTeam == "T1"
SyncActor == "u1"
SECOND == 1000
MaxPushes == 3
MaxSyncSeconds == 60
SyncStep == 15 * SECOND

\* Local windows of the pushing actor: two windows, each in several stages
\* of its life.
SyncBlocks ==
    { [id |-> w.id, startTime |-> w.startTime, endTime |-> w.startTime + 5 * HOUR,
       isActive |-> w.isActive, tokens |-> v.tokens, costUSD |-> v.costUSD] :
        w \in { [id |-> "W1", startTime |-> StartTime - 1 * HOUR, isActive |-> TRUE],
                [id |-> "W0", startTime |-> StartTime - 7 * HOUR, isActive |-> FALSE] },
        v \in { [tokens |-> <<1, 1, 0, 0>>, costUSD |-> 5],
                [tokens |-> <<3, 2, 1, 0>>, costUSD |-> 37],
                [tokens |-> <<3, 2, 1, 0>>, costUSD |-> 40] } }

\* The row an upsert of the window leaves in usage_sessions at time t: the
\* payload of syncUsageSession, as the columns store it; updated_at is set by
\* the column default on insert and by the trigger on update.
usageSessionRow(teamId, userId, sessionBlock, t) ==
    [team_id |-> teamId, user_id |-> userId, session_id |-> sessionBlock.id,
     start_time |-> sessionBlock.startTime, end_time |-> sessionBlock.endTime,
     is_active |-> sessionBlock.isActive,
     token_counts |-> sessionBlock.tokens,
     cost_usd |-> storeDecimal4(sessionBlock.costUSD),
     updated_at |-> t]

SameKey(r, row) ==
    /\ r.team_id = row.team_id
    /\ r.user_id = row.user_id
    /\ r.session_id = row.session_id

\* Variant: a plain insert, with no conflict target.
upsertUsageSession_Insert(rows, row) ==
    rows \cup {row}

\* .upsert(usageSession, { onConflict: 'team_id,user_id,session_id' }) on a
\* table with UNIQUE(team_id, user_id, session_id).
upsertUsageSession(rows, row) ==
    {r \in rows : ~SameKey(r, row)} \cup {row}

SyncInputs == { [fn |-> "syncUsageSession", teamId |-> SyncTeam, userId |-> SyncActor] }

\* The store and the reader before any push. rows is the usage_sessions
\* table; latest holds, per key, the last successfully pushed window, when
\* it was pushed and whether that was its first push (times = 1) or a later
\* one (times = 2); lastBlock is the window
\* of the last successful push; peerCache is the reader's teammate cache and
\* report what the reader's last getTeamStats said about the actor.
SyncStart ==
    [done |-> FALSE, t |-> StartTime, rows |-> {}, latest |-> {}, lastBlock |-> {},
     pushes |-> 0, peerCache |-> NoPeerEntry,
     report |-> [valid |-> FALSE, refetched |-> FALSE, current_tokens |-> 0,
                 current_cost |-> 0]]

InitSync ==
    /\ InitServices
    /\ candidates = {}
    /\ order = "desc"
    /\ fnArgs \in SyncInputs
    /\ fnResult = SyncStart

\* syncUsageSession(teamId, userId, sessionBlock): the upsert is applied, or
\* every attempt fails (no client, or the request is rejected) and the table
\* is left as it was.
SyncPush ==
    /\ fnArgs.fn = "syncUsageSession"
    /\ fnResult.pushes < MaxPushes
    /\ \E sessionBlock \in SyncBlocks, ok \in BOOLEAN :
        \E row \in {usageSessionRow(fnArgs.teamId, fnArgs.userId, sessionBlock, fnResult.t)} :
          fnResult' =
            IF ~ok THEN [fnResult EXCEPT !.pushes = @ + 1]
            ELSE [fnResult EXCEPT
                    !.pushes = @ + 1,
                    !.rows = upsertUsageSession(@, row),
                    !.latest = {e \in @ : e.session_id # sessionBlock.id}
                               \cup {[session_id |-> sessionBlock.id,
                                      block |-> sessionBlock, at |-> fnResult.t,
                                      times |-> IF \E e \in fnResult.latest :
                                                        e.session_id = sessionBlock.id
                                                THEN 2 ELSE 1]},
                    !.lastBlock = {sessionBlock},
                    !.report = [@ EXCEPT !.valid = FALSE]]
    /\ UNCHANGED fnArgs
    /\ ServicesIdle

\* Time passes.
SyncTimePasses ==
    /\ fnArgs.fn = "syncUsageSession"
    /\ fnResult.t < StartTime + MaxSyncSeconds * SECOND
    /\ fnResult' = [fnResult EXCEPT !.t = @ + SyncStep]
    /\ UNCHANGED fnArgs
    /\ ServicesIdle

\* getTeamStats of another member (Me) of the team: the expired cache entry
\* is dropped, the teammates' rows are served from the cache or fetched and
\* cached, and the actor's statistics are computed from them.
SyncGetTeamStats ==
    /\ fnArgs.fn = "syncUsageSession"
    /\ \E entry \in {cleanupExpiredCache(fnResult.peerCache, NoPeerEntry, fnResult.t)} :
        \E valid \in {isCacheValid(entry, fnResult.t)} :
          \E data \in {IF valid THEN entry.data
                       ELSE queryTeammateSessions(
                              {r \in fnResult.rows : r.team_id = fnArgs.teamId}, Me)} :
            \E stat \in {memberStat(fnArgs.userId, Me, NoSession, data)} :
              fnResult' =
                [fnResult EXCEPT
                   !.peerCache = IF valid THEN entry
                                 ELSE createCacheEntry(data, TEAMMATE_DATA_CACHE_TTL, fnResult.t),
                   !.report = [valid |-> TRUE, refetched |-> ~valid,
                               current_tokens |-> stat.current_tokens,
                               current_cost |-> stat.current_cost]]
    /\ UNCHANGED fnArgs
    /\ ServicesIdle

NextSync ==
    \/ SyncPush
    \/ SyncTimePasses
    \/ SyncGetTeamStats

SpecSync == InitSync /\ [][NextSync]_vars

IsSync == fnArgs.fn = "syncUsageSession"

RowsOfKey(sessionId) ==
    {r \in fnResult.rows : /\ r.team_id = fnArgs.teamId
                           /\ r.user_id = fnArgs.userId
                           /\ r.session_id = sessionId}

\* The token totals and the costs of a set of rows, in the order of the query.
RowsToSeqTokens(rows) ==
    [i \in 1..Len(RowsToSeq(rows)) |-> getTotalTokens(RowsToSeq(rows)[i].token_counts)]

RowsToSeqCosts(rows) ==
    [i \in 1..Len(RowsToSeq(rows)) |-> RowsToSeq(rows)[i].cost_usd]

C27_ReadBackEqualsPushedWindow ==
    IsSync /\ fnResult.report.valid /\ fnResult.report.refetched
        => \A b \in fnResult.lastBlock :
              /\ fnResult.report.current_tokens = getTotalTokens(b.tokens)
              /\ fnResult.report.current_cost = b.costUSD

\* What is read back: the sums over all rows of the actor, the costs as stored.
C27_ReadBackIsSumOfStoredRows ==
    IsSync /\ fnResult.report.valid /\ fnResult.report.refetched
        => /\ fnResult.report.current_tokens
                = SumNums(RowsToSeqTokens(fnResult.rows))
           /\ fnResult.report.current_cost
                = SumNums(RowsToSeqCosts(fnResult.rows))

\* The cost of a single pushed window comes back rounded.
C27_CostComesBackRounded ==
    /\ IsSync
    /\ fnResult.report.valid
    /\ fnResult.report.refetched
    /\ Cardinality(fnResult.rows) = 1
    /\ \E b \in fnResult.lastBlock : b.costUSD = 37
    /\ fnResult.report.current_cost = 40

\* ---------------------------------------------------------------------------
\* validateMonitorConfig on its own (enhanced-live-monitor.ts).
\* ---------------------------------------------------------------------------

ValidateRefreshIntervals == {500, 999, 1000, 5000}
ValidateSyncIntervals == {1000, 4999, 5000, 30000}
ValidateTokenLimits == {NotGiven, Some(-5), Some(0), Some(100000)}

ValidateInputs ==
    { [fn |-> "validateMonitorConfig",
       config |-> [userName |-> n, refreshInterval |-> r, syncInterval |-> y,
                   tokenLimit |-> l]] :
        n \in UserNames, r \in ValidateRefreshIntervals, y \in ValidateSyncIntervals,
        l \in ValidateTokenLimits }

InitValidate ==
    /\ InitServices
    /\ candidates = {}
    /\ order = "desc"
    /\ fnArgs \in ValidateInputs
    /\ fnResult = NotApplied

\* validateMonitorConfig(config): a success or a failure.
ValidateConfig ==
    /\ fnArgs.fn = "validateMonitorConfig"
    /\ ~fnResult.done
    /\ fnResult' = [done |-> TRUE,
                    value |-> IF validateMonitorConfig(fnArgs.config) = "ok"
                              THEN "success" ELSE "failure",
                    check |-> validateMonitorConfig(fnArgs.config)]
    /\ UNCHANGED fnArgs
    /\ ServicesIdle

NextValidate == ValidateConfig

SpecValidate == InitValidate /\ [][NextValidate]_vars

Validated == fnArgs.fn = "validateMonitorConfig" /\ fnResult.done

\* C29 (as stated): a failure exactly when the user name is blank, the
\* refreshInterval is below 1000, the syncInterval is below 5000, or a token
\* limit is given and is not greater than 0.
C29_FailureExactlyOnInvalidConfig ==
    Validated =>
        (fnResult.value = "failure"
            <=> \/ Trim(fnArgs.config.userName) = ""
                \/ fnArgs.config.refreshInterval < 1000
                \/ fnArgs.config.syncInterval < 5000
                \/ /\ fnArgs.config.tokenLimit # NotGiven
                   /\ ValueOf(fnArgs.config.tokenLimit) <= 0)

\* What the function does: a token limit of 0 counts as not given.
C29_FailureExceptForZeroLimit ==
    Validated =>
        (fnResult.value = "failure"
            <=> \/ Trim(fnArgs.config.userName) = ""
                \/ fnArgs.config.refreshInterval < 1000
                \/ fnArgs.config.syncInterval < 5000
                \/ /\ fnArgs.config.tokenLimit \notin {NotGiven, Some(0)}
                   /\ ValueOf(fnArgs.config.tokenLimit) <= 0)

\* The case of the repository's test: refreshInterval 500 is rejected.
C29_RejectsShortRefreshInterval ==
    /\ Validated
    /\ fnArgs.config.userName = "alice"
    /\ fnArgs.config.refreshInterval = 500
    /\ fnArgs.config.syncInterval = 30000
    /\ fnArgs.config.tokenLimit = Some(100000)
    /\ fnResult.value = "failure"

\* ---------------------------------------------------------------------------
\* TeamService: leaving and joining a team (joinTeam, leaveTeam, getUserTeams).
\* ---------------------------------------------------------------------------

\* The invite code of each team, and a code no team has.
InviteCode(team) == IF team = "T1" THEN "AAAAAA" ELSE "BBBBBB"
InvalidCode == "ZZZZZZ"
JoinCodes == {InviteCode(t) : t \in TeamIds} \cup {InvalidCode}
JoinUsers == {"me", "u1"}

\* A (team, user) pair without a team_members row, or with one whose
\* is_active is true or false.
MemberRowStates == {"no row", "active", "inactive"}

MemberInputs == { [fn |-> "membership"] }

MemberStart ==
    [done |-> FALSE,
     rows |-> [t \in TeamIds |-> [u \in JoinUsers |-> "no row"]],
     last |-> [op |-> "none", ok |-> FALSE, team |-> "none", user |-> "none",
               before |-> "no row", listed |-> {}]]

InitMember ==
    /\ InitServices
    /\ candidates = {}
    /\ order = "desc"
    /\ fnArgs \in MemberInputs
    /\ fnResult = MemberStart

\* The teams with the given invite code (`.eq('code', request.code).single()`).
TeamsWithCode(code) == {t \in TeamIds : InviteCode(t) = code}

\* TeamService.joinTeam: the team is looked up by its code; a row of the
\* user in that team, whatever its is_active, is returned as it is; only
\* without a row is one inserted, with is_active true.
joinTeam(rows, code, user, remoteFails) ==
    IF remoteFails \/ TeamsWithCode(code) = {}
    THEN [ok |-> FALSE, team |-> "none", rows |-> rows]
    ELSE LET team == CHOOSE t \in TeamsWithCode(code) : TRUE
             existingMember == rows[team][user] # "no row"
         IN  IF existingMember
             THEN [ok |-> TRUE, team |-> team, rows |-> rows]
             ELSE [ok |-> TRUE, team |-> team, rows |-> [rows EXCEPT ![team][user] = "active"]]

\* TeamService.leaveTeam: `update({ is_active: false })` on the rows of the
\* user in the team; an update that matches no row is no error.
leaveTeam(rows, team, user, remoteFails) ==
    IF remoteFails THEN [ok |-> FALSE, rows |-> rows]
    ELSE [ok |-> TRUE,
          rows |-> IF rows[team][user] = "no row" THEN rows
                   ELSE [rows EXCEPT ![team][user] = "inactive"]]

\* TeamService.getUserTeams: the teams of the user's rows with is_active true.
getUserTeams(rows, user) == {t \in TeamIds : rows[t][user] = "active"}

JoinTeam(code, user, remoteFails) ==
    /\ fnArgs.fn = "membership"
    /\ LET r == joinTeam(fnResult.rows, code, user, remoteFails)
       IN  fnResult' = [fnResult EXCEPT
                            !.rows = r.rows,
                            !.last = [op |-> "joinTeam", ok |-> r.ok, team |-> r.team,
                                      user |-> user,
                                      before |-> IF r.ok THEN fnResult.rows[r.team][user]
                                                 ELSE "no row",
                                      listed |-> getUserTeams(r.rows, user)]]
    /\ UNCHANGED fnArgs
    /\ ServicesIdle

LeaveTeam(team, user, remoteFails) ==
    /\ fnArgs.fn = "membership"
    /\ LET r == leaveTeam(fnResult.rows, team, user, remoteFails)
       IN  fnResult' = [fnResult EXCEPT
                            !.rows = r.rows,
                            !.last = [op |-> "leaveTeam", ok |-> r.ok, team |-> team,
                                      user |-> user, before |-> fnResult.rows[team][user],
                                      listed |-> getUserTeams(r.rows, user)]]
    /\ UNCHANGED fnArgs
    /\ ServicesIdle

NextMember ==
    \/ \E code \in JoinCodes, user \in JoinUsers, remoteFails \in BOOLEAN :
            JoinTeam(code, user, remoteFails)
    \/ \E team \in TeamIds, user \in JoinUsers, remoteFails \in BOOLEAN :
            LeaveTeam(team, user, remoteFails)

SpecMember == InitMember /\ [][NextMember]_vars

IsMember == fnArgs.fn = "membership"

\* C31 (as stated): a joinTeam that succeeds for a user who had left the
\* team leaves the user an active member, and getUserTeams lists the team.
C31_RejoinMakesActiveAgain ==
    (/\ IsMember
     /\ fnResult.last.op = "joinTeam"
     /\ fnResult.last.ok
     /\ fnResult.last.before = "inactive")
    => /\ fnResult.rows[fnResult.last.team][fnResult.last.user] = "active"
       /\ fnResult.last.team \in fnResult.last.listed

\* A first joinTeam does what is stated: the user is active and listed.
C31_FirstJoinIsListed ==
    (/\ IsMember
     /\ fnResult.last.op = "joinTeam"
     /\ fnResult.last.ok
     /\ fnResult.last.before = "no row")
    => /\ fnResult.rows[fnResult.last.team][fnResult.last.user] = "active"
       /\ fnResult.last.team \in fnResult.last.listed

\* joinTeam has succeeded for a user who had left, and the user is still
\* inactive and the team not listed.
C31_RejoinedButInactive ==
    /\ IsMember
    /\ fnResult.last.op = "joinTeam"
    /\ fnResult.last.ok
    /\ fnResult.last.before = "inactive"
    /\ fnResult.rows[fnResult.last.team][fnResult.last.user] = "inactive"
    /\ fnResult.last.team \notin fnResult.last.listed

\* ---------------------------------------------------------------------------
\* TeamService.createTeam under withRetry: the team row, the creator's member
\* row and the compensating delete.
\* ---------------------------------------------------------------------------

CreateNames == {"alpha", "beta"}
CreateUsers == {"me", "u1"}

CreateInputs ==
    { [fn |-> "createTeam", name |-> n, user_name |-> u] : n \in CreateNames, u \in CreateUsers }

\* A createTeam call that has passed validation and is about to run its
\* operation for the first time. teams are the attempts whose team row is in
\* the store, members those whose member row is; lastError is withRetry's
\* lastError, named by the insert it came from; deleteFailed is whether a
\* compensating delete has failed.
CreateStart ==
    [done |-> FALSE, pc |-> "insert team", attempt |-> 1, teams |-> {}, members |-> {},
     result |-> "none", lastError |-> "null", deleteFailed |-> FALSE]

InitCreate ==
    /\ InitServices
    /\ candidates = {}
    /\ order = "desc"
    /\ fnArgs \in CreateInputs
    /\ fnResult = CreateStart

\* withRetry's catch (part_000 lines 363-370): after a failed attempt the
\* loop waits and retries, or returns a failure after the last attempt.
CreateAttemptFailed(state, error) ==
    IF state.attempt < MAX_RETRIES
    THEN [state EXCEPT !.pc = "backoff", !.lastError = error]
    ELSE [state EXCEPT !.pc = "returned", !.done = TRUE, !.result = "failure",
                       !.lastError = error]

\* The insert into teams answers. All attempts use the one teamCode drawn
\* before withRetry, so while a row of an earlier attempt is in the store the
\* insert violates UNIQUE(code).
CreateTeamInserted(remoteFails) ==
    /\ fnArgs.fn = "createTeam"
    /\ fnResult.pc = "insert team"
    /\ fnResult' =
         IF remoteFails \/ fnResult.teams # {}
         THEN CreateAttemptFailed(fnResult, "teamError")
         ELSE [fnResult EXCEPT !.teams = @ \cup {fnResult.attempt}, !.pc = "insert member"]
    /\ UNCHANGED fnArgs
    /\ ServicesIdle

\* The insert into team_members answers: on success createTeam returns the
\* team; on an error the compensating delete is issued.
CreateMemberInserted(remoteFails) ==
    /\ fnArgs.fn = "createTeam"
    /\ fnResult.pc = "insert member"
    /\ fnResult' =
         IF remoteFails
         THEN [fnResult EXCEPT !.pc = "delete team"]
         ELSE [fnResult EXCEPT !.members = @ \cup {fnResult.attempt},
                               !.pc = "returned", !.done = TRUE, !.result = "success"]
    /\ UNCHANGED fnArgs
    /\ ServicesIdle

\* The compensating delete answers; its result is not looked at, and the
\* member error is thrown either way.
CreateTeamDeleted(remoteFails) ==
    /\ fnArgs.fn = "createTeam"
    /\ fnResult.pc = "delete team"
    /\ fnResult' =
         CreateAttemptFailed(
             [fnResult EXCEPT !.teams = IF remoteFails THEN @ ELSE @ \ {fnResult.attempt},
                              !.deleteFailed = @ \/ remoteFails],
             "memberError")
    /\ UNCHANGED fnArgs
    /\ ServicesIdle

\* The retry delay has passed: the next attempt begins.
CreateBackoffElapsed ==
    /\ fnArgs.fn = "createTeam"
    /\ fnResult.pc = "backoff"
    /\ fnResult' = [fnResult EXCEPT !.attempt = @ + 1, !.pc = "insert team"]
    /\ UNCHANGED fnArgs
    /\ ServicesIdle

NextCreate ==
    \/ \E remoteFails \in BOOLEAN : CreateTeamInserted(remoteFails)
    \/ \E remoteFails \in BOOLEAN : CreateMemberInserted(remoteFails)
    \/ \E remoteFails \in BOOLEAN : CreateTeamDeleted(remoteFails)
    \/ CreateBackoffElapsed

SpecCreate == InitCreate /\ [][NextCreate]_vars

IsCreate == fnArgs.fn = "createTeam"

\* C40 (as stated): when createTeam returns a failure, no team row created
\* by the call is in the store.
C40_FailureLeavesNoTeam ==
    (IsCreate /\ fnResult.pc = "returned" /\ fnResult.result = "failure")
        => fnResult.teams = {}

\* When every compensating delete succeeded, a failed createTeam leaves no
\* team row, whatever the attempt that created one.
C40_NoTeamWhenDeletesSucceed ==
    (IsCreate /\ fnResult.pc = "returned" /\ fnResult.result = "failure"
        /\ ~fnResult.deleteFailed)
        => fnResult.teams = {}

\* createTeam has returned a failure and the team row of its first attempt,
\* which has no member, is in the store.
C40_OrphanTeam ==
    /\ IsCreate
    /\ fnResult.pc = "returned"
    /\ fnResult.result = "failure"
    /\ fnResult.teams = {1}
    /\ fnResult.members = {}

\* A failed createTeam whose second and third attempts each created a team
\* row and deleted it again.
C40_LaterAttemptsCompensated ==
    /\ IsCreate
    /\ fnResult.pc = "returned"
    /\ fnResult.result = "failure"
    /\ ~fnResult.deleteFailed
    /\ fnResult.attempt = MAX_RETRIES
    /\ fnResult.teams = {}

====
